---------------------------- MODULE Spec2Model ----------------------------
(***************************************************************************)
(* A model of the digital-stage api-client-react core:                     *)
(*   - the normalized redux collections (CustomGroupPositions,             *)
(*     CustomStageMemberVolumes, Devices, VideoTracks) and their reducers, *)
(*   - the stage-device position resolver (useStageDevicePosition),        *)
(*   - the mediasoup session helpers (useMediasoup/util.ts).               *)
(* JavaScript objects are functions with string keys; a missing key or     *)
(* field reads as Undefined, and used as a key it is the key "undefined".  *)
(***************************************************************************)
EXTENDS Integers, Sequences, FiniteSets, TLC

VARIABLES
    customGroupPositions,      \* redux slice: CustomGroupPositions
    customStageMemberVolumes,  \* redux slice: CustomStageMemberVolumes
    devices,                   \* redux slice: Devices
    videoTracks,               \* redux slice: VideoTracks
    lastAction,                \* the action the store reduced last
    nEvents,                   \* number of actions dispatched so far
    wasFilled,                 \* store: a collection held records when lastAction came
    groups,                    \* redux slice: Groups (byId)
    stageMembers,              \* redux slice: StageMembers (byId)
    stageDevices,              \* redux slice: StageDevices (byId)
    customStageMemberPositions,  \* redux slice: CustomStageMemberPositions
    customStageDevicePositions,  \* redux slice: CustomStageDevicePositions
    position,                  \* useStageDevicePosition: the position state
    hookError,                 \* useStageDevicePosition: a selector threw
    secondHook,                \* a second component using the hook, mounted later
    requests,                  \* socket: requests emitted and not yet acknowledged
    sent,                      \* socket: number of requests emitted, by type
    connectPc,                 \* connect(): where its promise chain stands
    mediasoupDevice,           \* connect(): the mediasoup Device
    capabilitiesError,         \* the error the rtp-capabilities callback got
    transportPromise,          \* createWebRTCTransport(direction): its promise
    transport,                 \* the local Transport object, by direction
    dtls,                      \* the transport's connection handshake
    errbackValue,              \* what the 'connect' errCallback was called with
    transportAck,              \* what the ConnectTransport acknowledgement carried
    producerAck,               \* what the last CreateProducer acknowledgement carried
    producePc,                 \* produce(): where its promise stands
    producer,                  \* the local Producer
    opStatus,                  \* producer / consumer operations: the call's promise
    lastCall,                  \* the session function called last
    nCalls,                    \* number of produce/consume/producer calls made
    consumePc,                 \* consume(): where its promise chain stands
    consumer,                  \* the local Consumer
    consumerData,              \* the create-consumer acknowledgement's data
    currentDevice,             \* the last known record of the local device
    enumerated,                \* refreshMediaDevices: the lists just enumerated
    pendingUpdate,             \* the ChangeDevice payload emitted last
    nextRef,                   \* the identity the next new array gets
    nEmitted,                  \* number of ChangeDevice events emitted
    nRefresh,                  \* number of refreshMediaDevices calls
    rendererKind,              \* audio renderer: which renderer is mounted
    baseEntity,                \* audio renderer: the entity it renders
    customVolume,              \* audio renderer: the listening device's override
    gainValue,                 \* audio renderer: gainNode.gain, in tenths
    audioStore,                \* the store the renderer tree selects from
    mediaTracks,               \* useMediasoup: audioProducers and audioConsumers
    started,                   \* useAudioContext: started
    fibers,                    \* the mounted renderers and the nodes they hold
    edges,                     \* the connections of the audio graph
    commitLog,                 \* node operations of the last render and commit
    heldContext,               \* useAudioContext: audioContext, by creation order
    contextState,              \* the state of every audio context created
    startAttempts,             \* startAudioContext promise chains not yet settled
    providerStarted            \* useAudioContext: started, next to the held context

storeVars == <<customGroupPositions, customStageMemberVolumes, devices,
               videoTracks, lastAction, nEvents, wasFilled>>

stageVars == <<groups, stageMembers, stageDevices, customStageMemberPositions,
               customStageDevicePositions>>

hookVars == <<position, hookError, secondHook>>

netVars == <<requests, sent>>

connectVars == <<connectPc, mediasoupDevice, capabilitiesError, transportPromise,
                 transport>>

dtlsVars == <<dtls, errbackValue, transportAck, producerAck>>

producerVars == <<producePc, producer, opStatus, lastCall>>

consumerVars == <<consumePc, consumer, consumerData>>

sessionVars == <<netVars, connectVars, dtlsVars, producerVars, consumerVars,
                 nCalls>>

refreshVars == <<currentDevice, enumerated, pendingUpdate, nextRef, nEmitted,
                 nRefresh>>

gainVars == <<rendererKind, baseEntity, customVolume, gainValue>>

graphVars == <<audioStore, mediaTracks, started, fibers, edges, commitLog>>

contextVars == <<heldContext, contextState, startAttempts, providerStarted>>

vars == <<storeVars, stageVars, hookVars, sessionVars, refreshVars, gainVars,
          graphVars, contextVars>>

---------------------------------------------------------------------------
(* Bounds of the model *)

\* number of actions dispatched to the store in one behaviour
MaxEvents == 3
\* length of an entity list carried by a StageJoined snapshot
MaxSnapshot == 2
\* number of produce, consume and producer lifecycle calls in one session
MaxCalls == 4
\* number of media devices the browser reports
MaxMediaDevices == 2
\* number of refreshMediaDevices calls
MaxRefresh == 2

---------------------------------------------------------------------------
(* JavaScript object and array helpers *)

Undefined == "undefined"

EmptyMap == [k \in {} |-> Undefined]

\* obj[key], undefined when the key is missing
Get(obj, key) == IF key \in DOMAIN obj THEN obj[key] ELSE Undefined

\* obj[key] spread into an object literal: {...undefined} is {}
GetMap(obj, key) == IF key \in DOMAIN obj THEN obj[key] ELSE EmptyMap

\* { ...obj, [key]: value }
Put(obj, key, value) == (key :> value) @@ obj

\* { ...a, ...b }
Merge(a, b) == b @@ a

\* lodash omit(obj, key); omit(undefined, key) is {}
Omit(obj, key) == [k \in (DOMAIN obj) \ {key} |-> obj[k]]

\* lodash without(array, value): drops every occurrence
Without(array, value) == SelectSeq(array, LAMBDA e : e # value)

\* without(obj[key], value); without(undefined, value) is []
WithoutAt(obj, key, value) ==
    IF key \in DOMAIN obj THEN Without(obj[key], value) ELSE <<>>

Range(array) == {array[i] : i \in 1..Len(array)}

\* obj[key] ? [...obj[key], value] : [value]
Append2(obj, key, value) ==
    IF key \in DOMAIN obj THEN Append(obj[key], value) ELSE <<value>>

\* ../utils/upsert: appends the value unless the array already holds it;
\* a missing array counts as empty
upsert(array, value) ==
    IF value \in Range(array) THEN array ELSE Append(array, value)

\* upsert(obj[key], value)
UpsertAt(obj, key, value) ==
    IF key \in DOMAIN obj THEN upsert(obj[key], value) ELSE <<value>>

---------------------------------------------------------------------------
(* Event payloads *)

Ids == {"a", "b"}
GroupIds == {"g1", "g2"}
DeviceIds == {"d1", "d2"}
StageMemberIds == {"m1", "m2"}
StageDeviceIds == {"sd1", "sd2"}

\* Entities the server may send. Every slice has the same two ids; an override
\* has a target (group, stage member) and an owning listener device.
CustomGroupPositionPool ==
    { [_id |-> i, groupId |-> g, deviceId |-> d, x |-> 1] :
        i \in Ids, g \in GroupIds, d \in DeviceIds }

CustomStageMemberVolumePool ==
    { [_id |-> i, stageMemberId |-> m, deviceId |-> d, volume |-> 1] :
        i \in Ids, m \in StageMemberIds, d \in DeviceIds }

DevicePool ==
    { [_id |-> d, createdAt |-> "t0", lastLoginAt |-> "t1"] : d \in DeviceIds }

VideoTrackPool ==
    { [_id |-> i, stageMemberId |-> m, stageDeviceId |-> sd,
       userId |-> "u1", stageId |-> "s1"] :
        i \in Ids, m \in StageMemberIds, sd \in StageDeviceIds }

\* Partial payloads of the Changed events: the id and one patched field
CustomGroupPositionPatches ==
    { [_id |-> i, x |-> 0] : i \in Ids }
    \cup { [_id |-> i, groupId |-> "g2"] : i \in Ids }
    \cup { [_id |-> i, deviceId |-> "d2"] : i \in Ids }

CustomStageMemberVolumePatches ==
    { [_id |-> i, volume |-> 0] : i \in Ids }
    \cup { [_id |-> i, stageMemberId |-> "m2"] : i \in Ids }
    \cup { [_id |-> i, deviceId |-> "d2"] : i \in Ids }

DevicePatches ==
    { [_id |-> d, lastLoginAt |-> "t2"] : d \in DeviceIds }

VideoTrackPatches ==
    { [_id |-> i, stageMemberId |-> "m2"] : i \in Ids }
    \cup { [_id |-> i, userId |-> "u2"] : i \in Ids }

\* Entities of a StageJoined snapshot
CustomGroupPositionSnapshot ==
    { p \in CustomGroupPositionPool :
        p.deviceId = "d1" /\ (p._id = "a" <=> p.groupId = "g1") }

CustomStageMemberVolumeSnapshot ==
    { p \in CustomStageMemberVolumePool :
        p.deviceId = "d1" /\ (p._id = "a" <=> p.stageMemberId = "m1") }

VideoTrackSnapshot ==
    { p \in VideoTrackPool : p.stageDeviceId = "sd1" /\ p.stageMemberId = "m1" }

\* the lists a StageJoined snapshot may carry for one kind
SnapshotLists(pool) ==
    UNION { [1..n -> pool] : n \in 0..MaxSnapshot }

---------------------------------------------------------------------------
(* reduceCustomGroupPositions *)

InitialCustomGroupPositions ==
    [byId |-> EmptyMap, byDevice |-> EmptyMap, byGroup |-> EmptyMap,
     byDeviceAndGroup |-> EmptyMap, allIds |-> <<>>]

\* addCustomGroupPosition without the spread of the device's existing map
addCustomGroupPosition_noSpread(state, customGroup) ==
    [state EXCEPT
        !.byId = Put(state.byId, customGroup._id, customGroup),
        !.byGroup = Put(state.byGroup, customGroup.groupId,
                        Append2(state.byGroup, customGroup.groupId, customGroup._id)),
        !.byDevice = Put(state.byDevice, customGroup.deviceId,
                         Append2(state.byDevice, customGroup.deviceId, customGroup._id)),
        !.byDeviceAndGroup =
            Put(state.byDeviceAndGroup, customGroup.deviceId,
                customGroup.groupId :> customGroup._id),
        !.allIds = upsert(state.allIds, customGroup._id)]

addCustomGroupPosition(state, customGroup) ==
    [state EXCEPT
        !.byId = Put(state.byId, customGroup._id, customGroup),
        !.byGroup = Put(state.byGroup, customGroup.groupId,
                        Append2(state.byGroup, customGroup.groupId, customGroup._id)),
        !.byDevice = Put(state.byDevice, customGroup.deviceId,
                         Append2(state.byDevice, customGroup.deviceId, customGroup._id)),
        !.byDeviceAndGroup =
            Put(state.byDeviceAndGroup, customGroup.deviceId,
                Put(GetMap(state.byDeviceAndGroup, customGroup.deviceId),
                    customGroup.groupId, customGroup._id)),
        !.allIds = upsert(state.allIds, customGroup._id)]

RECURSIVE addAllCustomGroupPositions(_, _)
addAllCustomGroupPositions(state, list) ==
    IF list = <<>> THEN state
    ELSE addAllCustomGroupPositions(addCustomGroupPosition(state, Head(list)), Tail(list))

\* a Changed case that also lists the id under the group the payload names
changeCustomGroupPosition_reindexed(state, payload) ==
    [state EXCEPT
        !.byId = Put(state.byId, payload._id,
                     Merge(GetMap(state.byId, payload._id), payload)),
        !.byGroup = IF "groupId" \in DOMAIN payload
                    THEN Put(@, payload.groupId,
                             UpsertAt(@, payload.groupId, payload._id))
                    ELSE @]

changeCustomGroupPosition(state, payload) ==
    [state EXCEPT
        !.byId = Put(state.byId, payload._id,
                     Merge(GetMap(state.byId, payload._id), payload))]

removeCustomGroupPosition(state, id) ==
    IF id \in DOMAIN state.byId
    THEN LET groupId == Get(state.byId[id], "groupId")
             deviceId == Get(state.byId[id], "deviceId")
         IN [state EXCEPT
                !.byId = Omit(state.byId, id),
                !.byGroup = Put(state.byGroup, groupId,
                                WithoutAt(state.byGroup, groupId, id)),
                !.byDevice = Put(state.byDevice, deviceId,
                                 WithoutAt(state.byDevice, deviceId, id)),
                !.byDeviceAndGroup =
                    Put(state.byDeviceAndGroup, deviceId,
                        Omit(GetMap(state.byDeviceAndGroup, deviceId), groupId)),
                !.allIds = Without(state.allIds, id)]
    ELSE state

reduceCustomGroupPositions(state, action) ==
    CASE action.type \in {"StageLeft", "RESET"} -> InitialCustomGroupPositions
      [] action.type = "StageJoined" ->
            IF "customGroupPositions" \in DOMAIN action.payload
            THEN addAllCustomGroupPositions(state, action.payload.customGroupPositions)
            ELSE state
      [] action.type = "CustomGroupPositionAdded" ->
            addCustomGroupPosition(state, action.payload)
      [] action.type = "CustomGroupPositionChanged" ->
            changeCustomGroupPosition(state, action.payload)
      [] action.type = "CustomGroupPositionRemoved" ->
            removeCustomGroupPosition(state, action.payload)
      [] OTHER -> state

---------------------------------------------------------------------------
(* reduceCustomStageMemberVolumes *)

InitialCustomStageMemberVolumes ==
    [byId |-> EmptyMap, byDevice |-> EmptyMap, byStageMember |-> EmptyMap,
     byDeviceAndStageMember |-> EmptyMap, allIds |-> <<>>]

addCustomStageMemberVolume(state, customStageMember) ==
    [state EXCEPT
        !.byId = Put(state.byId, customStageMember._id, customStageMember),
        !.byStageMember =
            Put(state.byStageMember, customStageMember.stageMemberId,
                Append2(state.byStageMember, customStageMember.stageMemberId,
                        customStageMember._id)),
        !.byDevice = Put(state.byDevice, customStageMember.deviceId,
                         Append2(state.byDevice, customStageMember.deviceId,
                                 customStageMember._id)),
        !.byDeviceAndStageMember =
            Put(state.byDeviceAndStageMember, customStageMember.deviceId,
                Put(GetMap(state.byDeviceAndStageMember, customStageMember.deviceId),
                    customStageMember.stageMemberId, customStageMember._id)),
        !.allIds = upsert(state.allIds, customStageMember._id)]

RECURSIVE addAllCustomStageMemberVolumes(_, _)
addAllCustomStageMemberVolumes(state, list) ==
    IF list = <<>> THEN state
    ELSE addAllCustomStageMemberVolumes(
            addCustomStageMemberVolume(state, Head(list)), Tail(list))

changeCustomStageMemberVolume(state, payload) ==
    [state EXCEPT
        !.byId = Put(state.byId, payload._id,
                     Merge(GetMap(state.byId, payload._id), payload))]

removeCustomStageMemberVolume(state, id) ==
    IF id \in DOMAIN state.byId
    THEN LET stageMemberId == Get(state.byId[id], "stageMemberId")
             deviceId == Get(state.byId[id], "deviceId")
         IN [state EXCEPT
                !.byId = Omit(state.byId, id),
                !.byStageMember =
                    Put(state.byStageMember, stageMemberId,
                        WithoutAt(state.byStageMember, stageMemberId, id)),
                !.byDevice = Put(state.byDevice, deviceId,
                                 WithoutAt(state.byDevice, deviceId, id)),
                !.byDeviceAndStageMember =
                    Put(state.byDeviceAndStageMember, deviceId,
                        Omit(GetMap(state.byDeviceAndStageMember, deviceId),
                             stageMemberId)),
                !.allIds = Without(state.allIds, id)]
    ELSE state

reduceCustomStageMemberVolumes(state, action) ==
    CASE action.type \in {"StageLeft", "RESET"} -> InitialCustomStageMemberVolumes
      [] action.type = "StageJoined" ->
            IF "customStageMemberVolumes" \in DOMAIN action.payload
            THEN addAllCustomStageMemberVolumes(
                    state, action.payload.customStageMemberVolumes)
            ELSE state
      [] action.type = "CustomStageMemberVolumeAdded" ->
            addCustomStageMemberVolume(state, action.payload)
      [] action.type = "CustomStageMemberVolumeChanged" ->
            changeCustomStageMemberVolume(state, action.payload)
      [] action.type = "CustomStageMemberVolumeRemoved" ->
            removeCustomStageMemberVolume(state, action.payload)
      [] OTHER -> state

---------------------------------------------------------------------------
(* reduceDevices *)

InitialDevices == [byId |-> EmptyMap, allIds |-> <<>>]

\* new Date(value)
NewDate(value) == <<"Date", value>>

addDevice(state, device) ==
    [state EXCEPT
        !.byId = Put(state.byId, device._id,
                     Merge(device, [createdAt |-> NewDate(device.createdAt),
                                    lastLoginAt |-> NewDate(device.lastLoginAt)])),
        !.allIds = upsert(state.allIds, device._id)]

changeDevice(state, payload) ==
    [state EXCEPT
        !.byId = Put(state.byId, payload._id,
                     Merge(GetMap(state.byId, payload._id), payload))]

removeDevice(state, id) ==
    [state EXCEPT
        !.byId = Omit(state.byId, id),
        !.allIds = Without(state.allIds, id)]

reduceDevices(state, action) ==
    CASE action.type = "RESET" -> InitialDevices
      [] action.type \in {"LocalDeviceReady", "DeviceAdded"} ->
            addDevice(state, action.payload)
      [] action.type = "DeviceChanged" -> changeDevice(state, action.payload)
      [] action.type = "DeviceRemoved" -> removeDevice(state, action.payload)
      [] OTHER -> state

---------------------------------------------------------------------------
(* reduceVideoTracks *)

InitialVideoTracks ==
    [byId |-> EmptyMap, byStageMember |-> EmptyMap, byStageDevice |-> EmptyMap,
     byStage |-> EmptyMap, byUser |-> EmptyMap, allIds |-> <<>>]

addVideoTrack(state, videoTrack) ==
    [state EXCEPT
        !.byId = Put(state.byId, videoTrack._id, videoTrack),
        !.byStageMember =
            Put(state.byStageMember, videoTrack.stageMemberId,
                UpsertAt(state.byStageMember, videoTrack.stageMemberId, videoTrack._id)),
        !.byStageDevice =
            Put(state.byStageDevice, videoTrack.stageDeviceId,
                UpsertAt(state.byStageDevice, videoTrack.stageDeviceId, videoTrack._id)),
        !.byUser = Put(state.byUser, videoTrack.userId,
                       UpsertAt(state.byUser, videoTrack.userId, videoTrack._id)),
        !.byStage = Put(state.byStage, videoTrack.stageId,
                        UpsertAt(state.byStage, videoTrack.stageId, videoTrack._id)),
        !.allIds = upsert(state.allIds, videoTrack._id)]

\* a StageJoined case that starts from the empty collection
RECURSIVE addAllVideoTracks_cleared(_, _)
addAllVideoTracks_cleared(state, list) ==
    IF list = <<>> THEN InitialVideoTracks
    ELSE addVideoTrack(addAllVideoTracks_cleared(state, SubSeq(list, 1, Len(list) - 1)),
                       list[Len(list)])

RECURSIVE addAllVideoTracks(_, _)
addAllVideoTracks(state, list) ==
    IF list = <<>> THEN state
    ELSE addAllVideoTracks(addVideoTrack(state, Head(list)), Tail(list))

\* a Changed case that stores the payload in place of the record
changeVideoTrack_replaced(state, update) ==
    [state EXCEPT !.byId = Put(state.byId, update._id, update)]

changeVideoTrack(state, update) ==
    [state EXCEPT
        !.byId = Put(state.byId, update._id,
                     Merge(GetMap(state.byId, update._id), update))]

\* the Removed case without its `if (!state.byId[id]) return state`
removeVideoTrack_unguarded(state, id) ==
    LET videoTrack == GetMap(state.byId, id)
    IN [state EXCEPT
           !.byId = Omit(state.byId, id),
           !.byStageMember =
               Put(state.byStageMember, Get(videoTrack, "stageMemberId"),
                   WithoutAt(state.byStageMember, Get(videoTrack, "stageMemberId"), id)),
           !.allIds = Without(state.allIds, id)]

removeVideoTrack(state, id) ==
    IF id \notin DOMAIN state.byId
    THEN state
    ELSE LET stageId == Get(state.byId[id], "stageId")
             stageMemberId == Get(state.byId[id], "stageMemberId")
             userId == Get(state.byId[id], "userId")
             stageDeviceId == Get(state.byId[id], "stageDeviceId")
         IN [state EXCEPT
                !.byId = Omit(state.byId, id),
                !.byStageMember =
                    Put(state.byStageMember, stageMemberId,
                        WithoutAt(state.byStageMember, stageMemberId, id)),
                !.byStageDevice =
                    Put(state.byStageDevice, stageDeviceId,
                        WithoutAt(state.byStageDevice, stageDeviceId, id)),
                !.byStage = Put(state.byStage, stageId,
                                WithoutAt(state.byStage, stageId, id)),
                !.byUser = Put(state.byUser, userId,
                               WithoutAt(state.byUser, userId, id)),
                !.allIds = Without(state.allIds, id)]

\* the StageLeft / RESET case returning the state it was given
clearVideoTracks_keep(state) == state

\* the StageLeft / RESET case
clearVideoTracks(state) == InitialVideoTracks

reduceVideoTracks(state, action) ==
    CASE action.type \in {"StageLeft", "RESET"} -> clearVideoTracks(state)
      [] action.type = "StageJoined" ->
            IF "videoTracks" \in DOMAIN action.payload
            THEN addAllVideoTracks(state, action.payload.videoTracks)
            ELSE state
      [] action.type = "VideoTrackAdded" -> addVideoTrack(state, action.payload)
      [] action.type = "VideoTrackChanged" -> changeVideoTrack(state, action.payload)
      [] action.type = "VideoTrackRemoved" -> removeVideoTrack(state, action.payload)
      [] OTHER -> state

---------------------------------------------------------------------------
(* The store: every dispatched action is reduced by every collection reducer *)

NoAction == [type |-> "@@INIT", payload |-> EmptyMap]

StoreInit ==
    /\ customGroupPositions = InitialCustomGroupPositions
    /\ customStageMemberVolumes = InitialCustomStageMemberVolumes
    /\ devices = InitialDevices
    /\ videoTracks = InitialVideoTracks
    /\ lastAction = NoAction
    /\ nEvents = 0
    /\ wasFilled = FALSE

dispatch(action) ==
    /\ nEvents < MaxEvents
    /\ nEvents' = nEvents + 1
    /\ lastAction' = action
    /\ wasFilled' = ( \/ customGroupPositions # InitialCustomGroupPositions
                      \/ customStageMemberVolumes # InitialCustomStageMemberVolumes
                      \/ devices # InitialDevices
                      \/ videoTracks # InitialVideoTracks )
    /\ customGroupPositions' = reduceCustomGroupPositions(customGroupPositions, action)
    /\ customStageMemberVolumes' =
            reduceCustomStageMemberVolumes(customStageMemberVolumes, action)
    /\ devices' = reduceDevices(devices, action)
    /\ videoTracks' = reduceVideoTracks(videoTracks, action)

\* combineReducers hands every reducer its own slice only, so the slices
\* evolve independently: a behaviour fills one slice at a time, and moves to
\* another slice once the others are back in their initial state.
OnlyCustomGroupPositions ==
    /\ customStageMemberVolumes = InitialCustomStageMemberVolumes
    /\ devices = InitialDevices
    /\ videoTracks = InitialVideoTracks

OnlyCustomStageMemberVolumes ==
    /\ customGroupPositions = InitialCustomGroupPositions
    /\ devices = InitialDevices
    /\ videoTracks = InitialVideoTracks

OnlyDevices ==
    /\ customGroupPositions = InitialCustomGroupPositions
    /\ customStageMemberVolumes = InitialCustomStageMemberVolumes
    /\ videoTracks = InitialVideoTracks

OnlyVideoTracks ==
    /\ customGroupPositions = InitialCustomGroupPositions
    /\ customStageMemberVolumes = InitialCustomStageMemberVolumes
    /\ devices = InitialDevices

StageLeft == dispatch([type |-> "StageLeft", payload |-> EmptyMap])

Reset == dispatch([type |-> "RESET", payload |-> EmptyMap])

StageJoined ==
    \/ dispatch([type |-> "StageJoined", payload |-> EmptyMap])
    \/ /\ OnlyCustomGroupPositions
       /\ \E l \in SnapshotLists(CustomGroupPositionSnapshot) :
            dispatch([type |-> "StageJoined",
                      payload |-> [customGroupPositions |-> l]])
    \/ /\ OnlyCustomStageMemberVolumes
       /\ \E l \in SnapshotLists(CustomStageMemberVolumeSnapshot) :
            dispatch([type |-> "StageJoined",
                      payload |-> [customStageMemberVolumes |-> l]])
    \/ /\ OnlyVideoTracks
       /\ \E l \in SnapshotLists(VideoTrackSnapshot) :
            dispatch([type |-> "StageJoined", payload |-> [videoTracks |-> l]])

CustomGroupPositionAdded ==
    /\ OnlyCustomGroupPositions
    /\ \E p \in CustomGroupPositionPool :
        dispatch([type |-> "CustomGroupPositionAdded", payload |-> p])

CustomGroupPositionChanged ==
    /\ OnlyCustomGroupPositions
    /\ \E p \in CustomGroupPositionPatches :
        dispatch([type |-> "CustomGroupPositionChanged", payload |-> p])

CustomGroupPositionRemoved ==
    /\ OnlyCustomGroupPositions
    /\ \E id \in Ids :
        dispatch([type |-> "CustomGroupPositionRemoved", payload |-> id])

CustomStageMemberVolumeAdded ==
    /\ OnlyCustomStageMemberVolumes
    /\ \E p \in CustomStageMemberVolumePool :
        dispatch([type |-> "CustomStageMemberVolumeAdded", payload |-> p])

CustomStageMemberVolumeChanged ==
    /\ OnlyCustomStageMemberVolumes
    /\ \E p \in CustomStageMemberVolumePatches :
        dispatch([type |-> "CustomStageMemberVolumeChanged", payload |-> p])

CustomStageMemberVolumeRemoved ==
    /\ OnlyCustomStageMemberVolumes
    /\ \E id \in Ids :
        dispatch([type |-> "CustomStageMemberVolumeRemoved", payload |-> id])

DeviceAdded ==
    /\ OnlyDevices
    /\ \E p \in DevicePool, t \in {"LocalDeviceReady", "DeviceAdded"} :
        dispatch([type |-> t, payload |-> p])

DeviceChanged ==
    /\ OnlyDevices
    /\ \E p \in DevicePatches : dispatch([type |-> "DeviceChanged", payload |-> p])

DeviceRemoved ==
    /\ OnlyDevices
    /\ \E id \in DeviceIds : dispatch([type |-> "DeviceRemoved", payload |-> id])

VideoTrackAdded ==
    /\ OnlyVideoTracks
    /\ \E p \in VideoTrackPool : dispatch([type |-> "VideoTrackAdded", payload |-> p])

VideoTrackChanged ==
    /\ OnlyVideoTracks
    /\ \E p \in VideoTrackPatches :
        dispatch([type |-> "VideoTrackChanged", payload |-> p])

VideoTrackRemoved ==
    /\ OnlyVideoTracks
    /\ \E id \in Ids : dispatch([type |-> "VideoTrackRemoved", payload |-> id])

StoreNext ==
    \/ StageLeft
    \/ Reset
    \/ StageJoined
    \/ CustomGroupPositionAdded
    \/ CustomGroupPositionChanged
    \/ CustomGroupPositionRemoved
    \/ CustomStageMemberVolumeAdded
    \/ CustomStageMemberVolumeChanged
    \/ CustomStageMemberVolumeRemoved
    \/ DeviceAdded
    \/ DeviceChanged
    \/ DeviceRemoved
    \/ VideoTrackAdded
    \/ VideoTrackChanged
    \/ VideoTrackRemoved

---------------------------------------------------------------------------
(* Properties of the store *)

NoDuplicates(array) ==
    \A i, j \in 1..Len(array) : array[i] = array[j] => i = j

\* the ids held by the buckets of a list index
Buckets(index) == UNION { Range(index[k]) : k \in DOMAIN index }

\* the (listener, target) pairs a compound index maps, and the ids it maps to
Pairs(index) == UNION { { <<d, t>> : t \in DOMAIN index[d] } : d \in DOMAIN index }
CompoundValues(index) ==
    UNION { { index[d][t] : t \in DOMAIN index[d] } : d \in DOMAIN index }

AllIdsIsKeySet(state) ==
    /\ NoDuplicates(state.allIds)
    /\ Range(state.allIds) = DOMAIN state.byId

\* C1: in every collection, after every event, allIds is a duplicate-free
\* list whose elements are exactly the keys of byId.
C1_AllIdsIsKeySetOfById ==
    /\ AllIdsIsKeySet(customGroupPositions)
    /\ AllIdsIsKeySet(customStageMemberVolumes)
    /\ AllIdsIsKeySet(devices)
    /\ AllIdsIsKeySet(videoTracks)

\* C2: after a Removed event for an id that was a key of byId, the id is in
\* no bucket of a list index and is no value of a compound index.
C2_RemovedIdLeavesEveryIndex ==
    [][ /\ ( /\ lastAction'.type = "CustomGroupPositionRemoved"
             /\ lastAction'.payload \in DOMAIN customGroupPositions.byId )
            => lastAction'.payload \notin
                    Buckets(customGroupPositions'.byGroup)
                    \cup Buckets(customGroupPositions'.byDevice)
                    \cup CompoundValues(customGroupPositions'.byDeviceAndGroup)
        /\ ( /\ lastAction'.type = "CustomStageMemberVolumeRemoved"
             /\ lastAction'.payload \in DOMAIN customStageMemberVolumes.byId )
            => lastAction'.payload \notin
                    Buckets(customStageMemberVolumes'.byStageMember)
                    \cup Buckets(customStageMemberVolumes'.byDevice)
                    \cup CompoundValues(
                            customStageMemberVolumes'.byDeviceAndStageMember)
        /\ ( /\ lastAction'.type = "VideoTrackRemoved"
             /\ lastAction'.payload \in DOMAIN videoTracks.byId )
            => lastAction'.payload \notin
                    Buckets(videoTracks'.byStageMember)
                    \cup Buckets(videoTracks'.byStageDevice)
                    \cup Buckets(videoTracks'.byStage)
                    \cup Buckets(videoTracks'.byUser)
      ]_vars

\* C3: a Changed event whose _id is no key of byId leaves the collection as
\* it was.
C3_ChangedUnknownIdIsNoOp ==
    [][ /\ ( /\ lastAction'.type = "CustomGroupPositionChanged"
             /\ lastAction'.payload._id \notin DOMAIN customGroupPositions.byId )
            => customGroupPositions' = customGroupPositions
        /\ ( /\ lastAction'.type = "CustomStageMemberVolumeChanged"
             /\ lastAction'.payload._id \notin DOMAIN customStageMemberVolumes.byId )
            => customStageMemberVolumes' = customStageMemberVolumes
        /\ ( /\ lastAction'.type = "DeviceChanged"
             /\ lastAction'.payload._id \notin DOMAIN devices.byId )
            => devices' = devices
        /\ ( /\ lastAction'.type = "VideoTrackChanged"
             /\ lastAction'.payload._id \notin DOMAIN videoTracks.byId )
            => videoTracks' = videoTracks
      ]_vars

\* the ids of the records of byId whose parent-reference field equals p
ChildrenOf(state, field, p) ==
    { i \in DOMAIN state.byId :
        field \in DOMAIN state.byId[i] /\ state.byId[i][field] = p }

\* C12: a Removed event whose id is no key of byId leaves the collection,
\* Devices included, with the content it had.
C12_RemovedUnknownIdIsNoOp ==
    [][ /\ ( /\ lastAction'.type = "CustomGroupPositionRemoved"
             /\ lastAction'.payload \notin DOMAIN customGroupPositions.byId )
            => customGroupPositions' = customGroupPositions
        /\ ( /\ lastAction'.type = "CustomStageMemberVolumeRemoved"
             /\ lastAction'.payload \notin DOMAIN customStageMemberVolumes.byId )
            => customStageMemberVolumes' = customStageMemberVolumes
        /\ ( /\ lastAction'.type = "DeviceRemoved"
             /\ lastAction'.payload \notin DOMAIN devices.byId )
            => devices' = devices
        /\ ( /\ lastAction'.type = "VideoTrackRemoved"
             /\ lastAction'.payload \notin DOMAIN videoTracks.byId )
            => videoTracks' = videoTracks
      ]_vars

\* a video track was stored and a Removed event for the other id, which the
\* store never held, came next
C12_Witness ==
    /\ nEvents = 2
    /\ lastAction.type = "VideoTrackRemoved"
    /\ lastAction.payload = "a"
    /\ DOMAIN videoTracks.byId = {"b"}
    /\ videoTracks.allIds = <<"b">>

\* C13: after a RESET event every collection equals its empty initial
\* state, and after a StageLeft event every stage-scoped collection does,
\* whatever the state before.
C13_ResetAndStageLeftClear ==
    [][ /\ lastAction'.type \in {"RESET", "StageLeft"}
            => /\ customGroupPositions' = InitialCustomGroupPositions
               /\ customStageMemberVolumes' = InitialCustomStageMemberVolumes
               /\ videoTracks' = InitialVideoTracks
        /\ lastAction'.type = "RESET" => devices' = InitialDevices
      ]_vars

\* a RESET event arrived at a store that held records
C13_Witness ==
    /\ lastAction.type = "RESET"
    /\ wasFilled
    /\ customGroupPositions = InitialCustomGroupPositions
    /\ devices = InitialDevices

\* allIds and the secondary and compound indices of a collection
IndicesOf(state) == [index \in DOMAIN state \ {"byId"} |-> state[index]]

\* C27: a Changed event leaves allIds and every secondary and compound index
\* as they were, also when the payload carries a parent-reference field with
\* a new value.
C27_ChangedKeepsIndices ==
    [][ /\ lastAction'.type = "CustomGroupPositionChanged"
            => IndicesOf(customGroupPositions') = IndicesOf(customGroupPositions)
        /\ lastAction'.type = "CustomStageMemberVolumeChanged"
            => IndicesOf(customStageMemberVolumes')
                    = IndicesOf(customStageMemberVolumes)
        /\ lastAction'.type = "DeviceChanged"
            => IndicesOf(devices') = IndicesOf(devices)
        /\ lastAction'.type = "VideoTrackChanged"
            => IndicesOf(videoTracks') = IndicesOf(videoTracks)
      ]_vars

\* an override listed under group g1 was patched with groupId g2: the record
\* names g2, the indices still list it under g1 only
C27_Witness ==
    /\ lastAction.type = "CustomGroupPositionChanged"
    /\ "groupId" \in DOMAIN lastAction.payload
    /\ lastAction.payload._id \in DOMAIN customGroupPositions.byId
    /\ customGroupPositions.byId[lastAction.payload._id].groupId = "g2"
    /\ DOMAIN customGroupPositions.byGroup = {"g1"}
    /\ lastAction.payload._id \in Range(customGroupPositions.byGroup["g1"])

\* the record a patch of a stored record is to give: the payload's fields
\* with the payload's values, the other fields as before
Patched(record, payload) ==
    [field \in DOMAIN record \cup DOMAIN payload |->
        IF field \in DOMAIN payload THEN payload[field] ELSE record[field]]

PatchedById(before, after, payload) ==
    payload._id \in DOMAIN before.byId =>
        /\ DOMAIN after.byId = DOMAIN before.byId
        /\ after.byId[payload._id] = Patched(before.byId[payload._id], payload)
        /\ \A id \in DOMAIN before.byId \ {payload._id} :
                after.byId[id] = before.byId[id]

\* C28: a Changed event for an id of byId gives that record the payload's
\* value in every field the payload names and leaves its other fields and all
\* other records as they were.
C28_ChangedMergesFields ==
    [][ /\ lastAction'.type = "CustomGroupPositionChanged"
            => PatchedById(customGroupPositions, customGroupPositions',
                           lastAction'.payload)
        /\ lastAction'.type = "CustomStageMemberVolumeChanged"
            => PatchedById(customStageMemberVolumes, customStageMemberVolumes',
                           lastAction'.payload)
        /\ lastAction'.type = "DeviceChanged"
            => PatchedById(devices, devices', lastAction'.payload)
        /\ lastAction'.type = "VideoTrackChanged"
            => PatchedById(videoTracks, videoTracks', lastAction'.payload)
      ]_vars

\* two video tracks are stored and one of them was patched with a new userId
C28_Witness ==
    /\ lastAction.type = "VideoTrackChanged"
    /\ DOMAIN videoTracks.byId = {"a", "b"}
    /\ "userId" \in DOMAIN lastAction.payload
    /\ \A id \in {"a", "b"} : "stageId" \in DOMAIN videoTracks.byId[id]
    /\ videoTracks.byId[lastAction.payload._id].userId = "u2"
    /\ videoTracks.byId[lastAction.payload._id].stageId = "s1"

\* the records of byId that carry the parent-reference field
ChildrenOfAny(state, field) ==
    { i \in DOMAIN state.byId : field \in DOMAIN state.byId[i] }

\* the parent ids a list index or a record of byId refers to
ParentsOf(state, index, field) ==
    DOMAIN state[index] \cup
    { state.byId[i][field] : i \in ChildrenOfAny(state, field) }

\* the list index holds, per parent, exactly the children of that parent,
\* each once
IndexIsExact(state, index, field) ==
    \A p \in ParentsOf(state, index, field) :
        LET bucket == IF p \in DOMAIN state[index] THEN state[index][p] ELSE <<>>
        IN  /\ NoDuplicates(bucket)
            /\ Range(bucket) = ChildrenOf(state, field, p)

\* C11: after any sequence of events, every bucket of every list index is
\* duplicate-free and holds exactly the ids of the records of byId whose
\* parent-reference field names that bucket.
C11_ListIndexesAreExact ==
    /\ IndexIsExact(customGroupPositions, "byGroup", "groupId")
    /\ IndexIsExact(customGroupPositions, "byDevice", "deviceId")
    /\ IndexIsExact(customStageMemberVolumes, "byStageMember", "stageMemberId")
    /\ IndexIsExact(customStageMemberVolumes, "byDevice", "deviceId")
    /\ IndexIsExact(videoTracks, "byStageMember", "stageMemberId")
    /\ IndexIsExact(videoTracks, "byStageDevice", "stageDeviceId")
    /\ IndexIsExact(videoTracks, "byStage", "stageId")
    /\ IndexIsExact(videoTracks, "byUser", "userId")

\* the override records of byId that name a listener and a target
OverridesOf(state, targetField) ==
    { i \in DOMAIN state.byId :
        {"deviceId", targetField} \subseteq DOMAIN state.byId[i] }

OneOverridePerPair(state, targetField) ==
    \A i, j \in OverridesOf(state, targetField) :
        ( /\ state.byId[i].deviceId = state.byId[j].deviceId
          /\ state.byId[i][targetField] = state.byId[j][targetField] ) => i = j

\* C9: byId holds at most one override per (deviceId, target id) pair.
C9_OneOverridePerPair ==
    /\ OneOverridePerPair(customGroupPositions, "groupId")
    /\ OneOverridePerPair(customStageMemberVolumes, "stageMemberId")

\* the effect of adding override p on a compound index: the pair of p maps
\* to p, and every other pair maps to what it mapped to before
ReplacesOnlyPair(before, after, deviceId, targetId, id) ==
    /\ Pairs(after) = Pairs(before) \cup {<<deviceId, targetId>>}
    /\ after[deviceId][targetId] = id
    /\ \A pair \in Pairs(before) \ {<<deviceId, targetId>>} :
            after[pair[1]][pair[2]] = before[pair[1]][pair[2]]

\* C10: an Added event for an override maps its (deviceId, target id) pair
\* to the new override's id, replacing the id mapped before, and leaves the
\* mapping of every other pair as it was.
C10_AddReplacesCompoundEntry ==
    [][ /\ lastAction'.type = "CustomGroupPositionAdded"
            => ReplacesOnlyPair(customGroupPositions.byDeviceAndGroup,
                                customGroupPositions'.byDeviceAndGroup,
                                lastAction'.payload.deviceId,
                                lastAction'.payload.groupId,
                                lastAction'.payload._id)
        /\ lastAction'.type = "CustomStageMemberVolumeAdded"
            => ReplacesOnlyPair(customStageMemberVolumes.byDeviceAndStageMember,
                                customStageMemberVolumes'.byDeviceAndStageMember,
                                lastAction'.payload.deviceId,
                                lastAction'.payload.stageMemberId,
                                lastAction'.payload._id)
      ]_vars

\* C10 witness: an override was added for a pair that another override of
\* byId already held, while the index maps a second pair
C10_Witness ==
    /\ lastAction.type = "CustomGroupPositionAdded"
    /\ \E j \in OverridesOf(customGroupPositions, "groupId") :
            /\ j # lastAction.payload._id
            /\ customGroupPositions.byId[j].deviceId = lastAction.payload.deviceId
            /\ customGroupPositions.byId[j].groupId = lastAction.payload.groupId
    /\ Cardinality(Pairs(customGroupPositions.byDeviceAndGroup)) > 1

\* every override of byId is reachable through the compound index: the
\* entry of its (deviceId, target id) pair names an override of that pair
IndexCoversById(state, index, targetField) ==
    \A id \in DOMAIN state.byId :
        LET d == Get(state.byId[id], "deviceId")
            t == Get(state.byId[id], targetField)
        IN  /\ d \in DOMAIN index
            /\ t \in DOMAIN index[d]
            /\ index[d][t] \in DOMAIN state.byId
            /\ Get(state.byId[index[d][t]], "deviceId") = d
            /\ Get(state.byId[index[d][t]], targetField) = t

\* C36: in every reachable state of an override collection, the compound
\* index entry of every override of byId is defined and names an override of
\* byId with the same listening device and target.
C36_CompoundIndexCoversById ==
    /\ IndexCoversById(customGroupPositions,
                       customGroupPositions.byDeviceAndGroup, "groupId")
    /\ IndexCoversById(customStageMemberVolumes,
                       customStageMemberVolumes.byDeviceAndStageMember,
                       "stageMemberId")

\* the state after one Added event per element of the list, in list order
RECURSIVE CustomGroupPositionsAdded(_, _)
CustomGroupPositionsAdded(state, list) ==
    IF list = <<>> THEN state
    ELSE CustomGroupPositionsAdded(
            reduceCustomGroupPositions(
                state, [type |-> "CustomGroupPositionAdded", payload |-> Head(list)]),
            Tail(list))

RECURSIVE CustomStageMemberVolumesAdded(_, _)
CustomStageMemberVolumesAdded(state, list) ==
    IF list = <<>> THEN state
    ELSE CustomStageMemberVolumesAdded(
            reduceCustomStageMemberVolumes(
                state,
                [type |-> "CustomStageMemberVolumeAdded", payload |-> Head(list)]),
            Tail(list))

RECURSIVE VideoTracksAdded(_, _)
VideoTracksAdded(state, list) ==
    IF list = <<>> THEN state
    ELSE VideoTracksAdded(
            reduceVideoTracks(
                state, [type |-> "VideoTrackAdded", payload |-> Head(list)]),
            Tail(list))

\* the list a StageJoined payload carries for a kind, if it does
SnapshotOf(payload, kind) ==
    IF kind \in DOMAIN payload THEN payload[kind] ELSE <<>>

\* this step dispatches a StageJoined event
StageJoinedDispatched == nEvents' = nEvents + 1 /\ lastAction'.type = "StageJoined"

\* C35: a StageJoined event leaves each collection in the state that one
\* Added event per element of the kind's snapshot list, in list order, leads
\* to from the current state; the entities already in the collection stay,
\* and a payload without the kind's list leaves the collection as it is.
C35_StageJoinedIsAddedInOrder ==
    [][StageJoinedDispatched =>
          /\ customGroupPositions' =
                CustomGroupPositionsAdded(
                    customGroupPositions,
                    SnapshotOf(lastAction'.payload, "customGroupPositions"))
          /\ customStageMemberVolumes' =
                CustomStageMemberVolumesAdded(
                    customStageMemberVolumes,
                    SnapshotOf(lastAction'.payload, "customStageMemberVolumes"))
          /\ videoTracks' =
                VideoTracksAdded(videoTracks,
                                 SnapshotOf(lastAction'.payload, "videoTracks"))
          /\ DOMAIN customGroupPositions.byId \subseteq DOMAIN customGroupPositions'.byId
          /\ DOMAIN customStageMemberVolumes.byId
                \subseteq DOMAIN customStageMemberVolumes'.byId
          /\ DOMAIN videoTracks.byId \subseteq DOMAIN videoTracks'.byId
          /\ "customGroupPositions" \notin DOMAIN lastAction'.payload
                => customGroupPositions' = customGroupPositions
          /\ "customStageMemberVolumes" \notin DOMAIN lastAction'.payload
                => customStageMemberVolumes' = customStageMemberVolumes
          /\ "videoTracks" \notin DOMAIN lastAction'.payload
                => videoTracks' = videoTracks
      ]_vars

\* a StageJoined snapshot listing two video track records arrived at a
\* collection that already held a track the snapshot does not list, and
\* that track is kept
C35_Witness ==
    /\ lastAction.type = "StageJoined"
    /\ "videoTracks" \in DOMAIN lastAction.payload
    /\ Len(lastAction.payload.videoTracks) = 2
    /\ wasFilled
    /\ \E id \in DOMAIN videoTracks.byId :
          \A i \in 1..2 : lastAction.payload.videoTracks[i]._id # id

---------------------------------------------------------------------------
(* useStageDevicePosition({stageDeviceId, deviceId}) *)

\* the hook's arguments: the stage device to place, and the listening device
stageDeviceId == "sd1"
deviceId == "d1"

Axes == {"x", "y", "z", "rX", "rY", "rZ"}

Pose(a, b, directivity) ==
    [x |-> a, y |-> b, z |-> a, rX |-> b, rY |-> a, rZ |-> b,
     directivity |-> directivity]

DefaultThreeDimensionalProperties == Pose(0, 0, "omni")

\* the entities and overrides the server may send for the hook's chain
GroupPool ==
    { Merge([_id |-> "g1"], p) : p \in {Pose(10, 1, "omni"), Pose(3, 0, "cardioid")} }

StageMemberPool ==
    { Merge([_id |-> "m1", groupId |-> "g1"], p) :
        p \in {Pose(5, 1, "omni"), Pose(0, 2, "cardioid")} }

StageDevicePool ==
    { Merge([_id |-> "sd1", stageMemberId |-> "m1"], p) :
        p \in {Pose(2, 0, "omni"), Pose(1, 1, "cardioid")} }

OverridePoses == {Pose(0, 4, "cardioid"), Pose(7, 0, "omni")}

CustomGroupPositionOverrides ==
    { Merge([_id |-> "cg", groupId |-> "g1", deviceId |-> deviceId], p) :
        p \in OverridePoses }

CustomStageMemberPositionOverrides ==
    { Merge([_id |-> "cm", stageMemberId |-> "m1", deviceId |-> deviceId], p) :
        p \in OverridePoses }

CustomStageDevicePositionOverrides ==
    { Merge([_id |-> "cd", stageDeviceId |-> "sd1", deviceId |-> deviceId], p) :
        p \in OverridePoses }

\* The reducers of Groups, StageMembers, StageDevices, CustomStageMemberPositions
\* and CustomStageDevicePositions, restricted to the indices the hook reads
InitialEntities == [byId |-> EmptyMap]

InitialOverrides == [byId |-> EmptyMap, byDeviceAndTarget |-> EmptyMap]

addEntity(state, entity) ==
    [state EXCEPT !.byId = Put(state.byId, entity._id, entity)]

changeEntity(state, payload) ==
    [state EXCEPT
        !.byId = Put(state.byId, payload._id,
                     Merge(GetMap(state.byId, payload._id), payload))]

removeEntity(state, id) == [state EXCEPT !.byId = Omit(state.byId, id)]

addOverride(state, override, targetField) ==
    [state EXCEPT
        !.byId = Put(state.byId, override._id, override),
        !.byDeviceAndTarget =
            Put(state.byDeviceAndTarget, override.deviceId,
                Put(GetMap(state.byDeviceAndTarget, override.deviceId),
                    override[targetField], override._id))]

removeOverride(state, id, targetField) ==
    IF id \in DOMAIN state.byId
    THEN LET target == Get(state.byId[id], targetField)
             device == Get(state.byId[id], "deviceId")
         IN [state EXCEPT
                !.byId = Omit(state.byId, id),
                !.byDeviceAndTarget =
                    Put(state.byDeviceAndTarget, device,
                        Omit(GetMap(state.byDeviceAndTarget, device), target))]
    ELSE state

\* The selectors. A selected entity is a record, or NoEntity when the lookup
\* yields undefined. Reading a property of undefined throws a TypeError: a
\* selector's result is then Throws.
NoEntity == [undefined |-> TRUE]
Throws == [throws |-> "TypeError"]

\* byId[id]
GetEntity(byId, id) == IF id \in DOMAIN byId THEN byId[id] ELSE NoEntity

\* state.<slice>.byId[id]
selectById(slice, id) == GetEntity(slice.byId, id)

\* entity && state.<slice>.byId[entity.<field>]
selectParent(entity, field, slice) ==
    IF entity = NoEntity THEN NoEntity
    ELSE GetEntity(slice.byId, Get(entity, field))

\* index[deviceId] && index[deviceId][entity._id]
\*     ? byId[index[deviceId][entity._id]] : undefined
selectOverride(byId, index, entity) ==
    IF deviceId \notin DOMAIN index THEN NoEntity
    ELSE IF entity = NoEntity THEN Throws
    ELSE IF entity._id \notin DOMAIN index[deviceId] THEN NoEntity
    ELSE GetEntity(byId, index[deviceId][entity._id])

\* a value || takes for false: 0 for a coordinate, "" for the directivity
Falsy(field, value) == IF field = "directivity" THEN value = "" ELSE value = 0

\* custom?.field || base.field : a missing override, and an override value of
\* 0 (falsy), both yield the base value
OrBase(custom, base, field) ==
    IF custom # NoEntity /\ field \in DOMAIN custom /\ ~Falsy(field, custom[field])
    THEN custom[field]
    ELSE base[field]

\* the object handed to setPosition
calculatePosition(group, customGroupPosition, stageMember, customStageMemberPosition, stageDevice, customStageDevicePosition) ==
    [field \in Axes \cup {"directivity"} |->
        IF field = "directivity"
        THEN OrBase(customGroupPosition, group, field)
        ELSE OrBase(customGroupPosition, group, field)
             + OrBase(customStageMemberPosition, stageMember, field)
             + OrBase(customStageDevicePosition, stageDevice, field)]

\* One render of the hook against the store st, followed by its effect:
\* the new <<position, hookError>>
useStageDevicePosition(st, oldPosition) ==
    LET stageDevice == selectById(st.stageDevices, stageDeviceId)
        customStageDevicePosition ==
            selectOverride(st.customStageDevicePositions.byId,
                           st.customStageDevicePositions.byDeviceAndTarget,
                           stageDevice)
        stageMember == selectParent(stageDevice, "stageMemberId", st.stageMembers)
        customStageMemberPosition ==
            selectOverride(st.customStageMemberPositions.byId,
                           st.customStageMemberPositions.byDeviceAndTarget,
                           stageMember)
        group == selectParent(stageMember, "groupId", st.groups)
        customGroupPosition ==
            selectOverride(st.customGroupPositions.byId,
                           st.customGroupPositions.byDeviceAndGroup,
                           group)
    IN  IF Throws \in {customStageDevicePosition, customStageMemberPosition,
                       customGroupPosition}
        THEN <<oldPosition, TRUE>>
        ELSE IF group # NoEntity /\ stageMember # NoEntity
                /\ stageDevice # NoEntity
        THEN <<calculatePosition(group, customGroupPosition, stageMember,
                                 customStageMemberPosition, stageDevice,
                                 customStageDevicePosition), FALSE>>
        ELSE <<oldPosition, FALSE>>

HookInit ==
    /\ groups = InitialEntities
    /\ stageMembers = InitialEntities
    /\ stageDevices = InitialEntities
    /\ customStageMemberPositions = InitialOverrides
    /\ customStageDevicePositions = InitialOverrides
    /\ position = DefaultThreeDimensionalProperties
    /\ hookError = FALSE
    /\ secondHook = [mounted |-> FALSE,
                     position |-> DefaultThreeDimensionalProperties]

\* the store slices the hook selects from
StageState ==
    [groups |-> groups, stageMembers |-> stageMembers,
     stageDevices |-> stageDevices,
     customGroupPositions |-> customGroupPositions,
     customStageMemberPositions |-> customStageMemberPositions,
     customStageDevicePositions |-> customStageDevicePositions]

\* the store changes to st, the mounted hook renders again and runs its effect
Rerender(st) ==
    /\ ~hookError
    /\ groups' = st.groups
    /\ stageMembers' = st.stageMembers
    /\ stageDevices' = st.stageDevices
    /\ customGroupPositions' = st.customGroupPositions
    /\ customStageMemberPositions' = st.customStageMemberPositions
    /\ customStageDevicePositions' = st.customStageDevicePositions
    /\ position' = useStageDevicePosition(st, position)[1]
    /\ hookError' = useStageDevicePosition(st, position)[2]
    /\ secondHook' =
            IF secondHook.mounted
            THEN [secondHook EXCEPT
                    !.position = useStageDevicePosition(st, @)[1]]
            ELSE secondHook
    /\ UNCHANGED <<customStageMemberVolumes, devices, videoTracks, lastAction,
                   nEvents, wasFilled>>

\* an entity arrives if the slice lacks it, and is patched if it is there
EntitySet(slice, pool) ==
    \E e \in pool :
        Rerender([StageState EXCEPT
            ![slice] = IF e._id \in DOMAIN StageState[slice].byId
                       THEN changeEntity(StageState[slice], e)
                       ELSE addEntity(StageState[slice], e)])

EntityRemoved(slice, id) ==
    /\ id \in DOMAIN StageState[slice].byId
    /\ Rerender([StageState EXCEPT ![slice] = removeEntity(StageState[slice], id)])

GroupSet == EntitySet("groups", GroupPool)
GroupRemoved == EntityRemoved("groups", "g1")
StageMemberSet == EntitySet("stageMembers", StageMemberPool)
StageMemberRemoved == EntityRemoved("stageMembers", "m1")
StageDeviceSet == EntitySet("stageDevices", StageDevicePool)
StageDeviceRemoved == EntityRemoved("stageDevices", "sd1")

GroupOverrideSet ==
    \E o \in CustomGroupPositionOverrides :
        Rerender([StageState EXCEPT
            !.customGroupPositions =
                IF o._id \in DOMAIN customGroupPositions.byId
                THEN changeCustomGroupPosition(customGroupPositions, o)
                ELSE addCustomGroupPosition(customGroupPositions, o)])

GroupOverrideRemoved ==
    /\ "cg" \in DOMAIN customGroupPositions.byId
    /\ Rerender([StageState EXCEPT
            !.customGroupPositions =
                removeCustomGroupPosition(customGroupPositions, "cg")])

OverrideSet(slice, pool, targetField) ==
    \E o \in pool :
        Rerender([StageState EXCEPT
            ![slice] = IF o._id \in DOMAIN StageState[slice].byId
                       THEN changeEntity(StageState[slice], o)
                       ELSE addOverride(StageState[slice], o, targetField)])

OverrideRemoved(slice, id, targetField) ==
    /\ id \in DOMAIN StageState[slice].byId
    /\ Rerender([StageState EXCEPT
            ![slice] = removeOverride(StageState[slice], id, targetField)])

StageMemberOverrideSet ==
    OverrideSet("customStageMemberPositions",
                CustomStageMemberPositionOverrides, "stageMemberId")
StageMemberOverrideRemoved ==
    OverrideRemoved("customStageMemberPositions", "cm", "stageMemberId")
StageDeviceOverrideSet ==
    OverrideSet("customStageDevicePositions",
                CustomStageDevicePositionOverrides, "stageDeviceId")
StageDeviceOverrideRemoved ==
    OverrideRemoved("customStageDevicePositions", "cd", "stageDeviceId")

\* A second component calls the hook with the same arguments: its position
\* state starts at the default and its first render and effect run against the
\* store as it is now. On a store that lacks an ancestor this is the pose of
\* the event history that adds the store's records one by one.
MountSecondHook ==
    /\ ~hookError
    /\ ~secondHook.mounted
    /\ secondHook' =
            [mounted |-> TRUE,
             position |-> useStageDevicePosition(
                              StageState, DefaultThreeDimensionalProperties)[1]]
    /\ hookError' =
            useStageDevicePosition(StageState,
                                   DefaultThreeDimensionalProperties)[2]
    /\ UNCHANGED <<storeVars, stageVars, position>>

HookNext ==
    \/ MountSecondHook
    \/ GroupSet
    \/ GroupRemoved
    \/ StageMemberSet
    \/ StageMemberRemoved
    \/ StageDeviceSet
    \/ StageDeviceRemoved
    \/ GroupOverrideSet
    \/ GroupOverrideRemoved
    \/ StageMemberOverrideSet
    \/ StageMemberOverrideRemoved
    \/ StageDeviceOverrideSet
    \/ StageDeviceOverrideRemoved

---------------------------------------------------------------------------
(* Properties of the position resolver *)

\* the listener's override of an entity of the chain, NoEntity if none
OverrideOf(byId, index, entity) == selectOverride(byId, index, entity)

\* a level contributes the override's value when the listener has an
\* override for it, and the base entity's value otherwise
LevelValue(custom, base, axis) ==
    IF custom # NoEntity THEN custom[axis] ELSE base[axis]

ChainPresent ==
    /\ stageDeviceId \in DOMAIN stageDevices.byId
    /\ "m1" \in DOMAIN stageMembers.byId
    /\ "g1" \in DOMAIN groups.byId

SumOfLevels(axis) ==
    LevelValue(OverrideOf(customGroupPositions.byId,
                          customGroupPositions.byDeviceAndGroup,
                          groups.byId["g1"]),
               groups.byId["g1"], axis)
    + LevelValue(OverrideOf(customStageMemberPositions.byId,
                            customStageMemberPositions.byDeviceAndTarget,
                            stageMembers.byId["m1"]),
                 stageMembers.byId["m1"], axis)
    + LevelValue(OverrideOf(customStageDevicePositions.byId,
                            customStageDevicePositions.byDeviceAndTarget,
                            stageDevices.byId[stageDeviceId]),
                 stageDevices.byId[stageDeviceId], axis)

\* C4: with the whole chain in the store, each axis of the resolved pose is
\* the sum over group, stage member and stage device of the level's
\* contribution: the override's value when one exists (0 included), the base
\* value otherwise.
C4_PositionIsSumOfLevels ==
    (ChainPresent /\ ~hookError) =>
        \A axis \in Axes : position[axis] = SumOfLevels(axis)

\* the directivity of the listener's override at the closest overridden
\* level: stage device, then stage member, then group; the group's own
\* directivity when no level has an override
ClosestOverrideDirectivity ==
    LET customStageDevicePosition ==
            OverrideOf(customStageDevicePositions.byId,
                       customStageDevicePositions.byDeviceAndTarget,
                       stageDevices.byId[stageDeviceId])
        customStageMemberPosition ==
            OverrideOf(customStageMemberPositions.byId,
                       customStageMemberPositions.byDeviceAndTarget,
                       stageMembers.byId["m1"])
        customGroupPosition ==
            OverrideOf(customGroupPositions.byId,
                       customGroupPositions.byDeviceAndGroup,
                       groups.byId["g1"])
    IN  IF customStageDevicePosition # NoEntity
        THEN customStageDevicePosition.directivity
        ELSE IF customStageMemberPosition # NoEntity
        THEN customStageMemberPosition.directivity
        ELSE IF customGroupPosition # NoEntity
        THEN customGroupPosition.directivity
        ELSE groups.byId["g1"].directivity

\* C21: with the whole chain in the store, the resolved directivity is the
\* directivity of the listener's override at the closest overridden level
\* (stage device first, then stage member, then group), and the group's own
\* directivity only when no level carries an override.
C21_DirectivityOfClosestOverride ==
    (ChainPresent /\ ~hookError) =>
        position.directivity = ClosestOverrideDirectivity

\* C22: the pose the hook returns is a function of the current store state
\* only: two components that call the hook with the same arguments on the same
\* store, one mounted before the events and one mounted later, return the
\* same pose, also after an ancestor was removed.
C22_PoseIsFunctionOfStore ==
    (secondHook.mounted /\ ~hookError) => secondHook.position = position

\* C40: while the stage device's own record, its stage member or its group
\* is absent from the store, resolving the pose raises no error, whatever
\* the override compound indices hold for the listening device
C40_AbsentChainRaisesNoError ==
    ~ChainPresent => ~hookError

---------------------------------------------------------------------------
(* useMediasoup/util.ts: the session against the router *)

RouterRequests ==
    {"GetRTPCapabilities", "CreateTransport", "ConnectTransport",
     "CreateProducer", "PauseProducer", "ResumeProducer", "CloseProducer",
     "CreateConsumer", "PauseConsumer", "ResumeConsumer", "CloseConsumer"}

Directions == {"send", "receive"}

\* the error argument of an acknowledgement: none, or the server's reason
NoError == ""
AckErrors == {NoError, "server error"}
NotAcknowledged == "not acknowledged"

NotCalled == "not called"
NoProducer == [id |-> "none", paused |-> FALSE, closed |-> FALSE]
NoAck == [error |-> "none", id |-> "none"]
NoConsumer == [id |-> "none", paused |-> FALSE, closed |-> FALSE]

Req(type, key) == [type |-> type, key |-> key]

\* routerConnection.emit(type, payload, callback) for every request of reqs,
\* the acknowledged request done (if any) leaving the socket
Emit(done, reqs) ==
    /\ requests' = (requests \ done) \cup reqs
    /\ sent' = [t \in RouterRequests |->
                    sent[t] + Cardinality({r \in reqs : r.type = t})]

SessionInit ==
    /\ requests = {}
    /\ sent = [t \in RouterRequests |-> 0]
    /\ connectPc = "idle"
    /\ mediasoupDevice = "none"
    /\ capabilitiesError = NotAcknowledged
    /\ transportPromise = [d \in Directions |-> "none"]
    /\ transport = [d \in Directions |-> "none"]
    /\ dtls = [d \in Directions |-> "new"]
    /\ errbackValue = [d \in Directions |-> NotCalled]
    /\ transportAck = [d \in Directions |-> "none"]
    /\ producerAck = NoAck
    /\ producePc = "idle"
    /\ producer = NoProducer
    /\ opStatus = [op \in {"PauseProducer", "ResumeProducer", "CloseProducer",
                            "PauseConsumer", "ResumeConsumer", "CloseConsumer"}
                        |-> "idle"]
    /\ lastCall = "none"
    /\ nCalls = 0
    /\ consumePc = "idle"
    /\ consumer = NoConsumer
    /\ consumerData = [paused |-> FALSE]

\* connect(routerConnection): new Device(), then getRTPCapabilities
connect ==
    /\ connectPc = "idle"
    /\ connectPc' = "GetRTPCapabilities"
    /\ mediasoupDevice' = "new"
    /\ Emit({}, {Req("GetRTPCapabilities", "connect")})
    /\ UNCHANGED <<capabilitiesError, transportPromise, transport, dtlsVars, producerVars,
                   consumerVars, nCalls>>

\* a callback that resolves whatever the acknowledgement carries
getRTPCapabilities_unchecked(error) == "resolved"

\* the promise of getRTPCapabilities after its acknowledgement callback:
\* reject(new Error(error)) comes first on an error, and the resolve that
\* follows it does not change a settled promise
getRTPCapabilities(error) ==
    IF error # NoError THEN "rejected" ELSE "resolved"

\* the rtp-capabilities acknowledgement: connect's chain rejects, or goes
\* on to device.load
AckRtpCapabilities ==
    /\ Req("GetRTPCapabilities", "connect") \in requests
    /\ \E error \in AckErrors :
            /\ capabilitiesError' = error
            /\ connectPc' = IF getRTPCapabilities(error) = "rejected"
                            THEN "rejected"
                            ELSE "device.load"
    /\ Emit({Req("GetRTPCapabilities", "connect")}, {})
    /\ UNCHANGED <<mediasoupDevice, transportPromise, transport, dtlsVars,
                   producerVars, consumerVars, nCalls>>

\* device.load settles: on failure connect rejects, on success both
\* createWebRTCTransport calls of Promise.all emit their request
DeviceLoad ==
    /\ connectPc = "device.load"
    /\ \/ /\ mediasoupDevice' = "failed"
          /\ connectPc' = "rejected"
          /\ UNCHANGED <<netVars, transportPromise>>
       \/ /\ mediasoupDevice' = "loaded"
          /\ connectPc' = "CreateTransport"
          /\ transportPromise' = [d \in Directions |-> "pending"]
          /\ Emit({}, {Req("CreateTransport", d) : d \in Directions})
    /\ UNCHANGED <<capabilitiesError, transport, dtlsVars, producerVars, consumerVars, nCalls>>

\* what Promise.all([send, receive]).then(...) makes of connect() once the
\* promise of one direction has changed
PromiseAll(pc, promises, direction) ==
    IF pc # "CreateTransport" THEN pc
    ELSE IF promises[direction] = "rejected" THEN "rejected"
    ELSE IF \A d \in Directions : promises[d] = "resolved" THEN "resolved"
    ELSE pc

\* the promise of createWebRTCTransport and the local transport after the
\* create-transport acknowledgement; device.create*Transport may throw, and
\* the promise then stays pending
createWebRTCTransport(error, throws) ==
    IF error # NoError THEN <<"rejected", "none">>
    ELSE IF throws THEN <<"pending", "none">>
    ELSE <<"resolved", "open">>

AckCreateTransport ==
    \E direction \in Directions, error \in AckErrors, throws \in BOOLEAN :
        /\ Req("CreateTransport", direction) \in requests
        /\ Emit({Req("CreateTransport", direction)}, {})
        /\ transportPromise' =
                [transportPromise EXCEPT
                    ![direction] = createWebRTCTransport(error, throws)[1]]
        /\ transport' =
                [transport EXCEPT
                    ![direction] = createWebRTCTransport(error, throws)[2]]
        /\ connectPc' = PromiseAll(connectPc, transportPromise', direction)
        /\ UNCHANGED <<mediasoupDevice, capabilitiesError, dtlsVars, producerVars,
                       consumerVars, nCalls>>

\* produce(sendTransport, track): transport.produce fires the transport's
\* 'connect' event on first use, and its 'produce' event once connected
produce ==
    /\ connectPc = "resolved"
    /\ transport["send"] = "open"
    /\ producePc \in {"idle", "rejected"}
    /\ dtls["send"] \in {"new", "connected"}
    /\ nCalls < MaxCalls
    /\ nCalls' = nCalls + 1
    /\ IF dtls["send"] = "new"
       THEN /\ dtls' = [dtls EXCEPT !["send"] = "connecting"]
            /\ producePc' = "ConnectTransport"
            /\ Emit({}, {Req("ConnectTransport", "send")})
       ELSE /\ dtls' = dtls
            /\ producePc' = "CreateProducer"
            /\ Emit({}, {Req("CreateProducer", "send")})
    /\ lastCall' = "produce"
    /\ UNCHANGED <<connectVars, errbackValue, transportAck, producerAck, producer,
                   opStatus, consumerVars>>

\* the acknowledgement callback with a rejection that calls neither callback
connectAcknowledged_silent(transportError, error) ==
    IF transportError # NoError
    THEN [dtls |-> "connecting", errback |-> NotCalled]
    ELSE [dtls |-> "connected", errback |-> NotCalled]

\* the ConnectTransport acknowledgement callback: on a rejection
\* errCallback(error) is called, `error` being the variable of the enclosing
\* CreateTransport callback; else callback(). The result is the state the
\* transport's handshake is left in and what errCallback was called with.
connectAcknowledged(transportError, error) ==
    IF transportError # NoError
    THEN [dtls |-> "failed", errback |-> error]
    ELSE [dtls |-> "connected", errback |-> NotCalled]

\* transport.on('connect'): the ConnectTransport acknowledgement. The
\* enclosing CreateTransport callback got past `if (error) return`, so its
\* `error` is empty.
AckConnectTransport ==
    \E direction \in Directions, transportError \in AckErrors :
        LET outcome == connectAcknowledged(transportError, NoError)
        IN  /\ Req("ConnectTransport", direction) \in requests
            /\ transportAck' =
                    [transportAck EXCEPT
                        ![direction] = IF transportError # NoError THEN "error"
                                       ELSE "ok"]
            /\ dtls' = [dtls EXCEPT ![direction] = outcome.dtls]
            /\ errbackValue' =
                    IF outcome.errback = NotCalled THEN errbackValue
                    ELSE [errbackValue EXCEPT ![direction] = outcome.errback]
            /\ CASE outcome.dtls = "failed" ->
                       /\ Emit({Req("ConnectTransport", direction)}, {})
                       /\ producePc' = IF direction = "send" THEN "rejected"
                                       ELSE producePc
                       /\ consumePc' = IF direction = "receive" THEN "rejected"
                                       ELSE consumePc
                 [] outcome.dtls = "connected" /\ direction = "send" ->
                       /\ Emit({Req("ConnectTransport", direction)},
                               {Req("CreateProducer", "send")})
                       /\ producePc' = "CreateProducer"
                       /\ consumePc' = consumePc
                 [] outcome.dtls = "connected" /\ direction = "receive" ->
                       /\ Emit({Req("ConnectTransport", direction)}, {})
                       /\ producePc' = producePc
                       /\ consumePc' = "transport.consume"
                 [] OTHER ->
                       /\ Emit({Req("ConnectTransport", direction)}, {})
                       /\ UNCHANGED <<producePc, consumePc>>
            /\ UNCHANGED <<connectVars, producerAck, producer, opStatus, lastCall,
                           consumer, consumerData, nCalls>>

\* the ids the server gives a producer
ProducerIds == {"p1", "p2"}

\* the acknowledgement callback handing on the producer without the
\* server's id
produceAcknowledged_localId(produceError, payload) ==
    IF produceError # NoError
    THEN [promise |-> "rejected", producer |-> NoProducer]
    ELSE [promise |-> "resolved",
          producer |-> [id |-> "local", paused |-> FALSE, closed |-> FALSE]]

\* the CreateProducer acknowledgement callback: errCallback(produceError),
\* which makes transport.produce reject without a Producer, or
\* callback({...producer, id: payload.id}), which makes it resolve with the
\* Producer of that id
produceAcknowledged(produceError, payload) ==
    IF produceError # NoError
    THEN [promise |-> "rejected", producer |-> NoProducer]
    ELSE [promise |-> "resolved",
          producer |-> [id |-> payload.id, paused |-> FALSE, closed |-> FALSE]]

\* transport.on('produce'): the CreateProducer acknowledgement
AckCreateProducer ==
    /\ Req("CreateProducer", "send") \in requests
    /\ Emit({Req("CreateProducer", "send")}, {})
    /\ \E produceError \in AckErrors, id \in ProducerIds :
            /\ producerAck' = [error |-> produceError, id |-> id]
            /\ producePc' = produceAcknowledged(produceError, [id |-> id]).promise
            /\ producer' = produceAcknowledged(produceError, [id |-> id]).producer
    /\ UNCHANGED <<connectVars, dtls, errbackValue, transportAck, opStatus,
                   lastCall, consumerVars, nCalls>>

\* the acknowledgement callback without its producer.pause() / resume() /
\* close()
applyProducerOp_skipped(p, op) == p

\* mediasoup Producer.pause / resume / close
applyProducerOp(p, op) ==
    CASE op = "PauseProducer" -> IF p.closed THEN p ELSE [p EXCEPT !.paused = TRUE]
      [] op = "ResumeProducer" -> IF p.closed THEN p ELSE [p EXCEPT !.paused = FALSE]
      [] op = "CloseProducer" -> [p EXCEPT !.closed = TRUE]

\* the body of pauseProducer / resumeProducer / stopProducer up to the emit:
\* the request goes out whatever the producer's state; the result is
\* <<the call's promise, the requests emitted>>
producerRequest(p, op) == <<"pending", {Req(op, p.id)}>>

callProducer(op) ==
    /\ producePc = "resolved"
    /\ opStatus[op] # "pending"
    /\ nCalls < MaxCalls
    /\ nCalls' = nCalls + 1
    /\ lastCall' = op
    /\ opStatus' = [opStatus EXCEPT ![op] = producerRequest(producer, op)[1]]
    /\ Emit({}, producerRequest(producer, op)[2])
    /\ UNCHANGED <<connectVars, dtlsVars, producePc, producer, consumerVars>>

pauseProducer == callProducer("PauseProducer")

resumeProducer == callProducer("ResumeProducer")

stopProducer == callProducer("CloseProducer")

\* the acknowledgement of a producer request: reject on error, else apply
\* the change to the local producer and resolve
ackProducer(op) ==
    /\ Req(op, producer.id) \in requests
    /\ Emit({Req(op, producer.id)}, {})
    /\ \E error \in AckErrors :
            IF error # NoError
            THEN /\ opStatus' = [opStatus EXCEPT ![op] = "rejected"]
                 /\ producer' = producer
            ELSE /\ opStatus' = [opStatus EXCEPT ![op] = "resolved"]
                 /\ producer' = applyProducerOp(producer, op)
    /\ UNCHANGED <<connectVars, dtlsVars, producePc, lastCall, consumerVars, nCalls>>

AckPauseProducer == ackProducer("PauseProducer")

AckResumeProducer == ackProducer("ResumeProducer")

AckCloseProducer == ackProducer("CloseProducer")

\* consume(routerConnection, receiveTransport, device, producerId):
\* createConsumer emits create-consumer
consume ==
    /\ connectPc = "resolved"
    /\ transport["receive"] = "open"
    /\ consumePc \in {"idle", "rejected"}
    /\ dtls["receive"] \in {"new", "connected"}
    /\ nCalls < MaxCalls
    /\ nCalls' = nCalls + 1
    /\ consumePc' = "CreateConsumer"
    /\ Emit({}, {Req("CreateConsumer", "receive")})
    /\ lastCall' = "consume"
    /\ UNCHANGED <<connectVars, dtlsVars, producePc, producer, opStatus, consumer,
                   consumerData>>

\* the create-consumer acknowledgement: reject on error, else
\* transport.consume(data), which fires the receive transport's 'connect'
\* event on first use
AckCreateConsumer ==
    /\ Req("CreateConsumer", "receive") \in requests
    /\ \E error \in AckErrors, paused \in BOOLEAN :
            IF error # NoError
            THEN /\ consumePc' = "rejected"
                 /\ Emit({Req("CreateConsumer", "receive")}, {})
                 /\ UNCHANGED <<consumerData, dtls>>
            ELSE /\ consumerData' = [paused |-> paused]
                 /\ IF dtls["receive"] = "new"
                    THEN /\ dtls' = [dtls EXCEPT !["receive"] = "connecting"]
                         /\ consumePc' = "ConnectTransport"
                         /\ Emit({Req("CreateConsumer", "receive")},
                                 {Req("ConnectTransport", "receive")})
                    ELSE /\ dtls' = dtls
                         /\ consumePc' = "transport.consume"
                         /\ Emit({Req("CreateConsumer", "receive")}, {})
    /\ UNCHANGED <<connectVars, errbackValue, transportAck, producerAck,
                   producerVars, consumer, nCalls>>

\* transport.consume(data) settles: it yields a new Consumer, which is not
\* paused, or it rejects, and nothing handles the rejection
TransportConsume ==
    /\ consumePc = "transport.consume"
    /\ \/ /\ consumer' = [id |-> "c1", paused |-> FALSE, closed |-> FALSE]
          /\ consumePc' = "consumer created"
       \/ /\ consumer' = consumer
          /\ consumePc' = "never settles"
    /\ UNCHANGED <<netVars, connectVars, dtlsVars, producerVars, consumerData,
                   nCalls>>

\* the continuation without its `if (data.paused)` branch
createConsumerThen_noPause(c, data) == c

\* the continuation of transport.consume in createConsumer: the consumer
\* after `if (data.paused) await consumer.pause()`
createConsumerThen(c, data) == IF data.paused THEN [c EXCEPT !.paused = TRUE] ELSE c

CreateConsumerResolves ==
    /\ consumePc = "consumer created"
    /\ consumer' = createConsumerThen(consumer, consumerData)
    /\ consumePc' = "createConsumer resolved"
    /\ UNCHANGED <<netVars, connectVars, dtlsVars, producerVars, consumerData,
                   nCalls>>

\* mediasoup Consumer.pause / resume / close
applyConsumerOp(c, op) ==
    CASE op = "PauseConsumer" -> IF c.closed THEN c ELSE [c EXCEPT !.paused = TRUE]
      [] op = "ResumeConsumer" -> IF c.closed THEN c ELSE [c EXCEPT !.paused = FALSE]
      [] op = "CloseConsumer" -> [c EXCEPT !.closed = TRUE]

\* the caller closes the receive transport while a consumer lives on it:
\* mediasoup's Transport.close() closes the transport's consumers
ReceiveTransportClosed ==
    /\ transport["receive"] = "open"
    /\ consumer # NoConsumer
    /\ ~consumer.closed
    /\ transport' = [transport EXCEPT !["receive"] = "closed"]
    /\ consumer' = [consumer EXCEPT !.closed = TRUE]
    /\ UNCHANGED <<netVars, connectPc, mediasoupDevice, capabilitiesError,
                   transportPromise, dtlsVars, producerVars, consumePc,
                   consumerData, nCalls>>

\* the end of consume's continuation: `if (localConsumer.paused)` only
\* reports 'is still paused after resume', and `return localConsumer`
\* resolves consume either way
consumeReturns(c) == "resolved"

\* the continuation of createConsumer in consume: a paused consumer is
\* resumed through resumeConsumer, which emits resume-consumer
ConsumeThen ==
    /\ consumePc = "createConsumer resolved"
    /\ IF consumer.paused
       THEN /\ consumePc' = "ResumeConsumer"
            /\ Emit({}, {Req("ResumeConsumer", consumer.id)})
       ELSE /\ consumePc' = consumeReturns(consumer)
            /\ UNCHANGED netVars
    /\ UNCHANGED <<connectVars, dtlsVars, producerVars, consumer, consumerData,
                   nCalls>>

\* the resume-consumer acknowledgement of resumeConsumer inside consume:
\* reject on error, else consumer.resume() and consume resolves
AckResumeConsumer ==
    /\ consumePc = "ResumeConsumer"
    /\ Req("ResumeConsumer", consumer.id) \in requests
    /\ Emit({Req("ResumeConsumer", consumer.id)}, {})
    /\ \E error \in AckErrors :
            IF error # NoError
            THEN consumePc' = "rejected" /\ consumer' = consumer
            ELSE /\ consumer' = applyConsumerOp(consumer, "ResumeConsumer")
                 /\ consumePc' = consumeReturns(consumer')
    /\ UNCHANGED <<connectVars, dtlsVars, producerVars, consumerData, nCalls>>

\* resumeConsumer / pauseConsumer without the check of consumer.paused
consumerRequest_unguarded(c, op) == <<"pending", {Req(op, c.id)}>>

\* the body of resumeConsumer / pauseConsumer / closeConsumer up to the
\* emit: a resume or pause request goes out only if the consumer's pause
\* state differs from the one asked for, else the call rejects at once; a
\* close request always goes out; the result is
\* <<the call's promise, the requests emitted>>
consumerRequest(c, op) ==
    IF \/ op = "ResumeConsumer" /\ c.paused
       \/ op = "PauseConsumer" /\ ~c.paused
       \/ op = "CloseConsumer"
    THEN <<"pending", {Req(op, c.id)}>>
    ELSE <<"rejected", {}>>

callConsumer(op) ==
    /\ consumePc = "resolved"
    /\ opStatus[op] # "pending"
    /\ nCalls < MaxCalls
    /\ nCalls' = nCalls + 1
    /\ lastCall' = op
    /\ opStatus' = [opStatus EXCEPT ![op] = consumerRequest(consumer, op)[1]]
    /\ Emit({}, consumerRequest(consumer, op)[2])
    /\ UNCHANGED <<connectVars, dtlsVars, producePc, producer, consumerVars>>

resumeConsumer == callConsumer("ResumeConsumer")

pauseConsumer == callConsumer("PauseConsumer")

closeConsumer == callConsumer("CloseConsumer")

\* an acknowledgement callback that changes the consumer before it looks at
\* the error
consumerAcknowledged_applied(c, op, error) ==
    [promise |-> IF error # NoError THEN "rejected" ELSE "resolved",
     consumer |-> applyConsumerOp(c, op)]

\* the acknowledgement callback of resumeConsumer / pauseConsumer /
\* closeConsumer: `if (error) return reject(error)`, else the change of the
\* local consumer and resolve(consumer)
consumerAcknowledged(c, op, error) ==
    IF error # NoError
    THEN [promise |-> "rejected", consumer |-> c]
    ELSE [promise |-> "resolved", consumer |-> applyConsumerOp(c, op)]

\* the acknowledgement of a consumer request issued by a resumeConsumer /
\* pauseConsumer / closeConsumer call
ackConsumer(op) ==
    /\ consumePc = "resolved"
    /\ Req(op, consumer.id) \in requests
    /\ Emit({Req(op, consumer.id)}, {})
    /\ \E error \in AckErrors :
            /\ opStatus' = [opStatus EXCEPT
                    ![op] = consumerAcknowledged(consumer, op, error).promise]
            /\ consumer' = consumerAcknowledged(consumer, op, error).consumer
    /\ UNCHANGED <<connectVars, dtlsVars, producePc, producer, lastCall, consumePc,
                   consumerData, nCalls>>

AckConsumerResumed == ackConsumer("ResumeConsumer")

AckConsumerPaused == ackConsumer("PauseConsumer")

AckConsumerClosed == ackConsumer("CloseConsumer")

SessionNext ==
    \/ ReceiveTransportClosed
    \/ closeConsumer
    \/ AckConsumerClosed
    \/ resumeConsumer
    \/ pauseConsumer
    \/ AckConsumerResumed
    \/ AckConsumerPaused
    \/ connect
    \/ AckRtpCapabilities
    \/ DeviceLoad
    \/ AckCreateTransport
    \/ produce
    \/ AckConnectTransport
    \/ AckCreateProducer
    \/ pauseProducer
    \/ resumeProducer
    \/ stopProducer
    \/ AckPauseProducer
    \/ AckResumeProducer
    \/ AckCloseProducer
    \/ consume
    \/ AckCreateConsumer
    \/ TransportConsume
    \/ CreateConsumerResolves
    \/ ConsumeThen
    \/ AckResumeConsumer

---------------------------------------------------------------------------
(* Properties of the session *)

ProducerOps == {"PauseProducer", "ResumeProducer", "CloseProducer"}

\* the producer is already in the state the operation asks for
AlreadyInRequestedState(p, op) ==
    CASE op = "PauseProducer" -> p.paused /\ ~p.closed
      [] op = "ResumeProducer" -> ~p.paused /\ ~p.closed
      [] op = "CloseProducer" -> p.closed

\* this step is a call of the producer operation op
IsProducerCall(op) == nCalls' = nCalls + 1 /\ lastCall' = op

\* C5: a producer lifecycle operation called on a producer that is already in
\* the requested state (pause on a paused producer, resume on a running one,
\* stop on a closed one) fails at once and emits no request of its type.
C5_RedundantProducerCallFailsFast ==
    [][\A op \in ProducerOps :
          (IsProducerCall(op) /\ AlreadyInRequestedState(producer, op))
              => (sent'[op] = sent[op] /\ opStatus'[op] = "rejected")]_vars

\* this step acknowledges the request of the producer operation op without
\* an error
ProducerAckSuccess(op) ==
    /\ Req(op, producer.id) \in requests \ requests'
    /\ opStatus[op] = "pending"
    /\ opStatus'[op] = "resolved"

\* the local producer is in the state the operation asks for
ProducerInRequestedState(p, op) ==
    CASE op = "PauseProducer" -> p.paused \/ p.closed
      [] op = "ResumeProducer" -> ~p.paused \/ p.closed
      [] op = "CloseProducer" -> p.closed

\* C15: the local pause / resume / close of a producer is applied only at
\* the server's success acknowledgement of the corresponding request: the
\* call itself and every other step leave paused / closed as they are, and
\* the operation resolves only with the local change applied.
C15_ProducerChangeOnlyOnAck ==
    [][ /\ \A op \in ProducerOps : IsProducerCall(op) => producer' = producer
        /\ (producer # NoProducer /\ producer'.paused /\ ~producer.paused)
              => ProducerAckSuccess("PauseProducer")
        /\ (producer # NoProducer /\ ~producer'.paused /\ producer.paused)
              => ProducerAckSuccess("ResumeProducer")
        /\ (producer # NoProducer /\ producer'.closed /\ ~producer.closed)
              => ProducerAckSuccess("CloseProducer")
        /\ \A op \in ProducerOps :
              (opStatus[op] # "resolved" /\ opStatus'[op] = "resolved")
                  => /\ ProducerAckSuccess(op)
                     /\ ProducerInRequestedState(producer', op)
      ]_vars

\* pauseProducer resolved on its first request, and the producer is paused
C15_Witness ==
    /\ opStatus["PauseProducer"] = "resolved"
    /\ sent["PauseProducer"] = 1
    /\ Req("PauseProducer", producer.id) \notin requests
    /\ producer.paused
    /\ ~producer.closed

\* the number of transports whose 'connect' event has fired
ConnectEvents == Cardinality({d \in Directions : dtls[d] # "new"})

\* C16: for each transport 'connect' event one ConnectTransport request is
\* emitted, and exactly one of the transport's callbacks is invoked, only
\* once the server has acknowledged: the ready callback if and only if the
\* acknowledgement carries no error, the error callback otherwise.
C16_ConnectCallbacksFollowAck ==
    /\ sent["ConnectTransport"] = ConnectEvents
    /\ \A d \in Directions :
          /\ Req("ConnectTransport", d) \in requests <=> dtls[d] = "connecting"
          /\ dtls[d] \in {"new", "connecting"}
                => transportAck[d] = "none" /\ errbackValue[d] = NotCalled
          /\ transportAck[d] = "ok"
                <=> (dtls[d] = "connected" /\ errbackValue[d] = NotCalled)
          /\ transportAck[d] = "error"
                <=> (dtls[d] = "failed" /\ errbackValue[d] # NotCalled)

\* the server rejected the send transport's ConnectTransport request and
\* accepted the receive transport's
C16_Witness ==
    /\ transportAck["send"] = "error"
    /\ dtls["send"] = "failed"
    /\ transportAck["receive"] = "ok"
    /\ dtls["receive"] = "connected"

\* C32: when the server has rejected a transport's ConnectTransport request,
\* the value the transport's error callback was called with is a rejection
\* reason of the server, never the empty value left over from the
\* CreateTransport acknowledgement.
C32_ErrbackGetsConnectRejection ==
    \A d \in Directions :
        transportAck[d] = "error" => errbackValue[d] \in AckErrors \ {NoError}

\* this step is the CreateProducer acknowledgement
CreateProducerAcknowledged ==
    Req("CreateProducer", "send") \in requests \ requests'

\* C17: for each 'produce' event one CreateProducer request is emitted; the
\* success callback is invoked only on a successful acknowledgement and
\* with the server's producer id; on an acknowledgement with an error
\* produce() rejects and no local producer is retained.
C17_ProducerCreatedOnAckWithServerId ==
    [][ /\ (producePc # "CreateProducer" /\ producePc' = "CreateProducer")
              => /\ sent'["CreateProducer"] = sent["CreateProducer"] + 1
                 /\ Req("CreateProducer", "send") \in requests' \ requests
        /\ (producePc' # producePc /\ producePc' \in {"resolved"})
              => CreateProducerAcknowledged
        /\ producer' # producer => CreateProducerAcknowledged \/ producer # NoProducer
        /\ CreateProducerAcknowledged
              => IF producerAck'.error = NoError
                 THEN /\ producePc' = "resolved"
                      /\ producer' # NoProducer
                      /\ producer'.id = producerAck'.id
                 ELSE /\ producePc' = "rejected"
                      /\ producer' = NoProducer
      ]_vars

\* produce() resolved with the producer the server named p2
C17_Witness ==
    /\ producePc = "resolved"
    /\ producerAck = [error |-> NoError, id |-> "p2"]
    /\ producer.id = "p2"

ConsumerOps == {"ResumeConsumer", "PauseConsumer"}

\* this step is a call of the consumer operation op
IsConsumerCall(op) == nCalls' = nCalls + 1 /\ lastCall' = op

\* the consumer's pause state is already the one the operation asks for
ConsumerAlreadyInRequestedState(c, op) ==
    (op = "ResumeConsumer" /\ ~c.paused) \/ (op = "PauseConsumer" /\ c.paused)

\* C14: resumeConsumer on a consumer that is not paused and pauseConsumer on
\* a paused one reject at once and emit nothing; a call emits its request
\* only when the consumer's pause state differs from the one asked for.
C14_ConsumerCallsCheckPauseState ==
    [][\A op \in ConsumerOps :
          IsConsumerCall(op) =>
              IF ConsumerAlreadyInRequestedState(consumer, op)
              THEN sent' = sent /\ requests' = requests
                   /\ opStatus'[op] = "rejected"
              ELSE sent'[op] = sent[op] + 1 /\ opStatus'[op] = "pending"]_vars

\* resumeConsumer was called on the running consumer and rejected although
\* no ResumeConsumer request was ever sent
C14_Witness ==
    /\ consumePc = "resolved"
    /\ lastCall = "ResumeConsumer"
    /\ ~consumer.paused
    /\ sent["ResumeConsumer"] = 0
    /\ opStatus["ResumeConsumer"] = "rejected"

\* this step is the one at which the consume call resolves
ConsumeResolves == consumePc # "resolved" /\ consumePc' = "resolved"

\* the local consumer exists and the consume call has not resolved yet
ConsumerAwaited ==
    consumePc \in {"consumer created", "createConsumer resolved", "ResumeConsumer"}

C31_StillPausedIsNotResolved ==
    [][(consumePc = "ResumeConsumer" /\ consumePc' = "resolved")
            => ~consumer'.paused]_vars

\* C37: a createWebRTCTransport or consume call whose acknowledgement has
\* arrived settles: no transport promise is pending without its
\* CreateTransport request in flight, and consume is never left with a
\* promise that nothing will settle.
C37_AcknowledgedCallsSettle ==
    /\ \A d \in Directions :
          transportPromise[d] = "pending" => Req("CreateTransport", d) \in requests
    /\ consumePc # "never settles"

LifecycleOps ==
    {"PauseProducer", "ResumeProducer", "CloseProducer",
     "PauseConsumer", "ResumeConsumer", "CloseConsumer"}

\* this step acknowledges the pending request of operation op with an error
AckedWithError(op) == opStatus[op] = "pending" /\ opStatus'[op] = "rejected"

\* this step is a call of the lifecycle operation op, or consume's own call
\* of resumeConsumer
IsLifecycleCall(op) ==
    \/ nCalls' = nCalls + 1 /\ lastCall' = op
    \/ op = "ResumeConsumer" /\ consumePc = "createConsumer resolved"

\* C29: when the server acknowledges a pause, resume or close request of a
\* producer or consumer with an error, the operation rejects and the
\* producer and the consumer are as they were, and nothing is emitted again:
\* a request goes out only in the step of the call, one per call.
C29_ErrorAckRejectsAndKeepsState ==
    [][\A op \in LifecycleOps :
          /\ AckedWithError(op) =>
                /\ producer' = producer
                /\ consumer' = consumer
                /\ sent' = sent
                /\ \A r \in requests' : r.type # op
          /\ (consumePc = "ResumeConsumer" /\ consumePc' = "rejected") =>
                /\ consumer' = consumer
                /\ sent' = sent
          /\ sent'[op] # sent[op] =>
                /\ IsLifecycleCall(op)
                /\ sent'[op] = sent[op] + 1
      ]_vars

\* a closeConsumer call was acknowledged with an error: the call rejected,
\* the consumer is still open, one request was emitted
C29_Witness ==
    /\ opStatus["CloseConsumer"] = "rejected"
    /\ sent["CloseConsumer"] = 1
    /\ consumer.id # "none"
    /\ ~consumer.closed
    /\ \A r \in requests : r.type # "CloseConsumer"

\* C30: a create-transport request is emitted only once the rtp-capabilities
\* request was acknowledged without error and in the step in which the device
\* gets loaded; after an rtp-capabilities acknowledgement with an error
\* connect is rejected and no create-transport request was ever emitted; at
\* the step where connect resolves, one send and one receive transport are
\* open and one create-transport request per direction was emitted.
C30_TransportsAfterCapabilitiesAndLoad ==
    [][/\ sent'["CreateTransport"] # sent["CreateTransport"] =>
            /\ capabilitiesError = NoError
            /\ Req("GetRTPCapabilities", "connect") \notin requests
            /\ mediasoupDevice # "loaded"
            /\ mediasoupDevice' = "loaded"
       /\ capabilitiesError' \notin {NoError, NotAcknowledged} =>
            /\ connectPc' = "rejected"
            /\ sent'["CreateTransport"] = 0
            /\ \A d \in Directions : transport'[d] = "none"
       /\ (connectPc # "resolved" /\ connectPc' = "resolved") =>
            /\ \A d \in Directions : transport'[d] = "open"
            /\ sent'["CreateTransport"] = Cardinality(Directions)
      ]_vars

\* connect has resolved after the capabilities were acknowledged without
\* error: the device is loaded and both transports are open
C30_Witness ==
    /\ connectPc = "resolved"
    /\ capabilitiesError = NoError
    /\ mediasoupDevice = "loaded"
    /\ transport = [d \in Directions |-> "open"]
    /\ sent["CreateTransport"] = 2

\* C8: at the step where connect() rejects, no transport created during that
\* connect is open.
C8_RejectedConnectLeavesNoTransportOpen ==
    [][(connectPc # "rejected" /\ connectPc' = "rejected")
           => \A d \in Directions : transport'[d] # "open"]_vars

---------------------------------------------------------------------------
(* useMediasoup/util.ts: enumerateDevices and refreshMediaDevices *)

DeviceLists == {"inputAudioDevices", "inputVideoDevices", "outputAudioDevices"}

\* what navigator.mediaDevices.enumerateDevices() can report for one device;
\* an empty deviceId or label is what the browser gives without permission
MediaDeviceInfos ==
    {[kind |-> "audioinput", deviceId |-> "x", label |-> "L"]} \cup
    {[kind |-> k, deviceId |-> "", label |-> ""] :
        k \in {"audioinput", "videoinput", "audiooutput"}}

MediaDeviceInfoLists == UNION {[1..n -> MediaDeviceInfos] : n \in 0..MaxMediaDevices}

EmptyLists == [list \in DeviceLists |-> <<>>]

\* the list a device of this kind is pushed to
ListOfKind(kind) ==
    CASE kind = "videoinput" -> "inputVideoDevices"
      [] kind = "audioinput" -> "inputAudioDevices"
      [] OTHER -> "outputAudioDevices"

\* the WebMediaDevice pushed for the device at (1-based) position index
WebMediaDevice(mediaDevice, index, list) ==
    [id |-> IF mediaDevice.deviceId # "" THEN mediaDevice.deviceId
            ELSE IF Len(list) = 1 THEN "default" ELSE ToString(index - 1),
     label |-> IF mediaDevice.label # "" THEN mediaDevice.label ELSE "Standard"]

\* devices.forEach((device, index) => ...) from position index on
RECURSIVE forEachDevice(_, _, _)
forEachDevice(mediaDevices, index, lists) ==
    IF index > Len(mediaDevices) THEN lists
    ELSE LET list == ListOfKind(mediaDevices[index].kind)
         IN  forEachDevice(mediaDevices, index + 1,
                 [lists EXCEPT ![list] =
                     Append(@, WebMediaDevice(mediaDevices[index], index, @))])

\* a JavaScript array: its identity and its items
Array(ref, items) == [ref |-> ref, items |-> items]

\* a !== b on two arrays compares their identity
NotSame(a, b) == a.ref # b.ref

\* the three lists as new arrays, the first of them getting identity ref
NewArrays(lists, ref) ==
    [inputAudioDevices |-> Array(ref, lists.inputAudioDevices),
     inputVideoDevices |-> Array(ref + 1, lists.inputVideoDevices),
     outputAudioDevices |-> Array(ref + 2, lists.outputAudioDevices)]

\* enumerateDevices(): three new arrays, empty without a navigator
enumerateDevices(navigator, mediaDevices, ref) ==
    IF ~navigator THEN NewArrays(EmptyLists, ref)
    ELSE NewArrays(forEachDevice(mediaDevices, 1, EmptyLists), ref)

NoUpdate == [_id |-> "none"]

NoLocalDevice == [_id |-> "none"] @@ NewArrays(EmptyLists, 0)

\* the `update` refreshMediaDevices builds: the lists that are !== the
\* current device's
changeDeviceUpdate(current, lists) ==
    [k \in {"_id"} \cup {list \in DeviceLists : NotSame(current[list], lists[list])}
        |-> IF k = "_id" THEN current._id ELSE lists[k]]

\* shouldUpdate
shouldUpdate(current, lists) ==
    \E list \in DeviceLists : NotSame(current[list], lists[list])

RefreshInit ==
    /\ currentDevice = NoLocalDevice
    /\ enumerated = NewArrays(EmptyLists, 0)
    /\ pendingUpdate = NoUpdate
    /\ nextRef = 3
    /\ nEmitted = 0
    /\ nRefresh = 0

\* the server's LocalDeviceReady: the record of the local device, with the
\* lists the server knows, arrives and is parsed into new arrays
LocalDeviceReady ==
    /\ currentDevice._id = "none"
    /\ \E mediaDevices \in MediaDeviceInfoLists :
            currentDevice' = [_id |-> "local"] @@
                NewArrays(forEachDevice(mediaDevices, 1, EmptyLists), nextRef)
    /\ nextRef' = nextRef + 3
    /\ UNCHANGED <<enumerated, pendingUpdate, nEmitted, nRefresh>>

\* refreshMediaDevices(currentDevice, socket)
refreshMediaDevices ==
    /\ currentDevice._id # "none"
    /\ nRefresh < MaxRefresh
    /\ nRefresh' = nRefresh + 1
    /\ \E socket \in BOOLEAN :
            IF ~socket
            THEN UNCHANGED <<enumerated, pendingUpdate, nextRef, nEmitted>>
            ELSE /\ \/ enumerated' = enumerateDevices(FALSE, <<>>, nextRef)
                    \/ \E mediaDevices \in MediaDeviceInfoLists :
                          enumerated' = enumerateDevices(TRUE, mediaDevices, nextRef)
                 /\ nextRef' = nextRef + 3
                 /\ IF shouldUpdate(currentDevice, enumerated')
                    THEN /\ pendingUpdate' =
                                changeDeviceUpdate(currentDevice, enumerated')
                         /\ nEmitted' = nEmitted + 1
                    ELSE UNCHANGED <<pendingUpdate, nEmitted>>
    /\ UNCHANGED currentDevice

\* the server's DeviceChanged answering the ChangeDevice: the payload,
\* parsed into new arrays, is merged into the device's record
LocalDeviceChanged ==
    /\ pendingUpdate # NoUpdate
    /\ currentDevice' =
            [k \in DOMAIN currentDevice |->
                IF k \in DOMAIN pendingUpdate /\ k # "_id"
                THEN Array(pendingUpdate[k].ref + 3, pendingUpdate[k].items)
                ELSE currentDevice[k]]
    /\ nextRef' = nextRef + 3
    /\ pendingUpdate' = NoUpdate
    /\ UNCHANGED <<enumerated, nEmitted, nRefresh>>

RefreshNext ==
    \/ LocalDeviceReady
    \/ refreshMediaDevices
    \/ LocalDeviceChanged

\* C7: a refreshMediaDevices call whose three enumerated lists have the same
\* content as the lists of the last known device record emits no
\* ChangeDevice event.
C7_SameListsEmitNothing ==
    [][(/\ nRefresh' = nRefresh + 1
        /\ enumerated' # enumerated
        /\ \A list \in DeviceLists :
               enumerated'[list].items = currentDevice[list].items)
           => nEmitted' = nEmitted]_vars

---------------------------------------------------------------------------
(* useAudioRenderer: the gain of an audio-bearing node *)

\* the four renderers that own a gain node; their gain effects are the same
\* code, with group / stageMember / stageDevice / audioTrack as base entity
RendererKinds ==
    {"GroupRenderer", "StageMemberRenderer", "StageDeviceRenderer",
     "AudioTrackRenderer"}

\* volumes, in tenths: 0, 0.5, 0.8
Volumes == {0, 5, 8}

\* the volume and mute state of a base entity or of an override
VolumeProperties == [volume : Volumes, muted : BOOLEAN]

\* what the customVolume selector yields: the override or undefined
CustomVolumes == VolumeProperties \cup {NoEntity}

\* the gain of a new GainNode (1), in tenths
DefaultGain == 10

\* the gain effect without its customVolume?.muted branch
gainEffect_noCustomMute(custom, entity) ==
    IF custom # NoEntity /\ custom.volume # 0 THEN custom.volume
    ELSE IF entity.muted THEN 0
    ELSE entity.volume

\* the gain effect without its entity.muted branch
gainEffect_noBaseMute(custom, entity) ==
    IF custom # NoEntity /\ custom.muted THEN 0
    ELSE IF custom # NoEntity /\ custom.volume # 0 THEN custom.volume
    ELSE entity.volume

\* the value the gain effect sets: customVolume?.muted, then a truthy
\* customVolume?.volume, then the entity's muted, then the entity's volume
gainEffect(custom, entity) ==
    IF custom # NoEntity /\ custom.muted THEN 0
    ELSE IF custom # NoEntity /\ custom.volume # 0 THEN custom.volume
    ELSE IF entity.muted THEN 0
    ELSE entity.volume

GainInit ==
    /\ rendererKind = "none"
    /\ baseEntity = [volume |-> 8, muted |-> FALSE]
    /\ customVolume = NoEntity
    /\ gainValue = DefaultGain

\* a renderer mounts: createGain(), the selectors run, the effect runs
MountRenderer ==
    /\ rendererKind = "none"
    /\ \E kind \in RendererKinds, newEntity \in VolumeProperties,
          custom \in CustomVolumes :
            /\ rendererKind' = kind
            /\ baseEntity' = newEntity
            /\ customVolume' = custom
            /\ gainValue' = gainEffect(custom, newEntity)

\* the entity's volume or muted changes in the store: the effect runs again
BaseEntityChanged ==
    /\ rendererKind # "none"
    /\ \E newEntity \in VolumeProperties \ {baseEntity} :
            /\ baseEntity' = newEntity
            /\ gainValue' = gainEffect(customVolume, newEntity)
    /\ UNCHANGED <<rendererKind, customVolume>>

\* the listening device's override is added, changed or removed: the
\* effect runs again
CustomVolumeChanged ==
    /\ rendererKind # "none"
    /\ \E custom \in CustomVolumes \ {customVolume} :
            /\ customVolume' = custom
            /\ gainValue' = gainEffect(custom, baseEntity)
    /\ UNCHANGED <<rendererKind, baseEntity>>

GainNext ==
    \/ MountRenderer
    \/ BaseEntityChanged
    \/ CustomVolumeChanged

\* an un-muted override for the listening device exists
UnmutedOverride == customVolume # NoEntity /\ ~customVolume.muted

\* C18: whenever an un-muted override for the listening device exists, the
\* node's gain is the override's volume, 0 included, whatever the base
\* entity's volume.
C18_GainIsOverrideVolume ==
    (rendererKind # "none" /\ UnmutedOverride) => gainValue = customVolume.volume

\* C19 (as stated): whenever the base entity is muted, the node's gain is 0.
C19_BaseMuteSilences ==
    (rendererKind # "none" /\ baseEntity.muted) => gainValue = 0

\* C19 (amended): whenever the base entity is muted, the node's gain is the
\* volume of the listening device's un-muted override if there is one, and
\* 0 otherwise.
C19_BaseMuteSilencesUnlessOverridden ==
    (rendererKind # "none" /\ baseEntity.muted)
        => gainValue = IF UnmutedOverride THEN customVolume.volume ELSE 0

\* the base entity is muted, and the listening device's un-muted override
\* of volume 0.5 is what the node plays at
C19_Witness ==
    /\ rendererKind = "StageMemberRenderer"
    /\ baseEntity = [volume |-> 8, muted |-> TRUE]
    /\ customVolume = [volume |-> 5, muted |-> FALSE]
    /\ gainValue = 5

\* C20: whenever the listening device's override is muted, the node's gain
\* is 0, whatever the override's volume and the base entity's volume and
\* muted flag.
C20_OverrideMuteSilences ==
    (rendererKind # "none" /\ customVolume # NoEntity /\ customVolume.muted)
        => gainValue = 0

\* entity volume 0.8, not muted, with a muted override of volume 0.5
C20_Witness ==
    /\ rendererKind = "GroupRenderer"
    /\ baseEntity = [volume |-> 8, muted |-> FALSE]
    /\ customVolume = [volume |-> 5, muted |-> TRUE]
    /\ gainValue = 0

---------------------------------------------------------------------------
(* useAudioRenderer: the tree of renderers and the audio graph they build.  *)
(* AudioRenderProvider > StageRenderer > GroupRenderer >                    *)
(* StageMemberRenderer > StageDeviceRenderer > AudioTrackRenderer.          *)
(* One step is one store, session or context change followed by React's     *)
(* render and commit: the render pass from the provider down, the effect    *)
(* cleanups of the unmounted renderers, then the effects of the mounted.    *)

\* the four renderer levels below StageRenderer and the slice each lists its
\* children from; byParent stands for byStage, byGroup, byStageMember and
\* byStageDevice
Levels == 1..4
KindAt == <<"GroupRenderer", "StageMemberRenderer", "StageDeviceRenderer", "AudioTrackRenderer">>
SliceAt == <<"groups", "stageMembers", "stageDevices", "audioTracks">>
ParentFieldAt == <<"stageId", "groupId", "stageMemberId", "stageDeviceId">>

\* the entities the server sends for the stage "s1"; the audio track t1
\* belongs to the local device, t2 to another device
TreeEntities ==
    <<{[_id |-> "g1", stageId |-> "s1", volume |-> 10, muted |-> FALSE, x |-> 0]},
      {[_id |-> "m1", groupId |-> "g1", volume |-> 10, muted |-> FALSE, x |-> 0]},
      {[_id |-> "sd1", stageMemberId |-> "m1", volume |-> 10, muted |-> FALSE,
        x |-> 0]},
      {[_id |-> "t1", stageDeviceId |-> "sd1", deviceId |-> "d1", volume |-> 10,
        muted |-> FALSE],
       [_id |-> "t2", stageDeviceId |-> "sd1", deviceId |-> "d2", volume |-> 10,
        muted |-> FALSE]}>>

\* the fields of an entity that only set parameters of its nodes
ParameterFields == {"volume", "muted", "x"}

\* the payloads of the StageDeviceChanged events the server sends
StageDeviceChanges ==
    {[_id |-> "sd1", volume |-> 0], [_id |-> "sd1", muted |-> TRUE],
     [_id |-> "sd1", x |-> 1]}

AudioTrackIds == {"t1", "t2"}

\* a MediaStreamTrack, named by the producer or consumer that carries it
NoTrack == [of |-> "none", id |-> ""]
NullTrack == [of |-> "null", id |-> ""]
ProducerTrack(id) == [of |-> "producer", id |-> id]
ConsumerTrack(id) == [of |-> "consumer", id |-> id]

\* An audio node is named by the renderer that created it, its kind and a
\* generation that tells it from the live nodes the same renderer key created
\* earlier.
Node(by, kind, generation) == [by |-> by, kind |-> kind, generation |-> generation]
NoNode == Node("", "none", 0)
\* useAudioContext: createMediaStreamDestination()
DestinationNode == Node("", "destination", 0)

InitialTreeSlice == [byId |-> EmptyMap, byParent |-> EmptyMap]

InitialAudioStore ==
    [globals |-> [stageId |-> "", localDeviceId |-> deviceId],
     groups |-> InitialTreeSlice,
     stageMembers |-> InitialTreeSlice,
     stageDevices |-> InitialTreeSlice,
     audioTracks |-> InitialTreeSlice]

\* add(entity) of Groups, StageMembers, StageDevices, AudioTracks
addTreeEntity(state, entity, parentField) ==
    [byId |-> Put(state.byId, entity._id, entity),
     byParent |-> Put(state.byParent, entity[parentField],
                      UpsertAt(state.byParent, entity[parentField], entity._id))]

\* remove(id) of Groups, StageMembers, StageDevices, AudioTracks
removeTreeEntity(state, id, parentField) ==
    IF id \in DOMAIN state.byId
    THEN LET parent == state.byId[id][parentField]
         IN [byId |-> Omit(state.byId, id),
             byParent |-> Put(state.byParent, parent,
                              WithoutAt(state.byParent, parent, id))]
    ELSE state

\* change(payload) of StageDevices: the payload's fields are merged into
\* the entity of that id
changeTreeEntity(state, payload) ==
    IF payload._id \in DOMAIN state.byId
    THEN [state EXCEPT
            !.byId = Put(state.byId, payload._id,
                         Merge(state.byId[payload._id], payload))]
    ELSE state

\* state.<slice>.by<Parent>[parentId] || []
childIds(st, level, parentId) ==
    LET index == st[SliceAt[level]].byParent
    IN  IF parentId \in DOMAIN index THEN index[parentId] ELSE <<>>

\* a provider that renders StageRenderer whether or not the context has
\* started
groupIds_unstarted(st, isStarted) ==
    IF st.globals.stageId # "" /\ st.globals.localDeviceId # ""
    THEN childIds(st, 1, st.globals.stageId)
    ELSE <<>>

\* AudioRenderProvider renders StageRenderer only if
\* stageId && localDeviceId && audioContext && started && destination;
\* StageRenderer renders one GroupRenderer per id of groups.byStage[stageId]
groupIds(st, isStarted) ==
    IF st.globals.stageId # "" /\ st.globals.localDeviceId # "" /\ isStarted
    THEN childIds(st, 1, st.globals.stageId)
    ELSE <<>>

\* the renderers of a render pass in the order React renders them: a
\* renderer, then its children in list order
RECURSIVE RenderOrder(_, _, _, _)
RenderOrder(st, ids, level, parent) ==
    IF ids = <<>> THEN <<>>
    ELSE <<[id |-> Head(ids), level |-> level, parent |-> parent]>>
         \o (IF level < 4
             THEN RenderOrder(st, childIds(st, level + 1, Head(ids)), level + 1,
                              Head(ids))
             ELSE <<>>)
         \o RenderOrder(st, Tail(ids), level, parent)

\* the order React runs the effects of newly mounted renderers in: the
\* children's effects, then the parent's
RECURSIVE EffectOrder(_, _, _, _)
EffectOrder(st, ids, level, parent) ==
    IF ids = <<>> THEN <<>>
    ELSE (IF level < 4
          THEN EffectOrder(st, childIds(st, level + 1, Head(ids)), level + 1,
                           Head(ids))
          ELSE <<>>)
         \o <<[id |-> Head(ids), level |-> level, parent |-> parent]>>
         \o EffectOrder(st, Tail(ids), level, parent)

\* audioContext.create<Kind>(): a node no live node is identical to
RECURSIVE FreshNode(_, _, _, _)
FreshNode(live, by, kind, generation) ==
    IF Node(by, kind, generation) \in live
    THEN FreshNode(live, by, kind, generation + 1)
    ELSE Node(by, kind, generation)

SeqIds(s) == {s[i].id : i \in 1..Len(s)}
ById(s, id) == s[CHOOSE i \in 1..Len(s) : s[i].id = id]

RECURSIVE Concat(_)
Concat(lists) == IF lists = <<>> THEN <<>> ELSE Head(lists) \o Concat(Tail(lists))

\* the nodes a renderer holds in its state
FiberNodes(f) ==
    {f.gainNode, f.analyserNode, f.pannerNode, f.oscillator, f.sourceNode}
        \ {NoNode}

\* the first render of a renderer: gain and analyser (useLevelPublishing)
\* nodes at every level, a panner for stage devices and audio tracks; the
\* oscillator of a stage device is created by its first effect
createRenderer(entry, live, destination) ==
    [id |-> entry.id, level |-> entry.level, parent |-> entry.parent,
     destination |-> destination,
     gainNode |-> FreshNode(live, entry.id, "gain", 0),
     analyserNode |-> FreshNode(live, entry.id, "analyser", 0),
     pannerNode |-> IF entry.level >= 3
                   THEN FreshNode(live, entry.id, "panner", 0) ELSE NoNode,
     oscillator |-> IF entry.level = 3
                   THEN FreshNode(live, entry.id, "oscillator", 0) ELSE NoNode,
     track |-> NoTrack,
     sourceNode |-> NoNode,
     gain |-> DefaultGain,
     positionX |-> 0]

Op(op, from, to, by) == [op |-> op, from |-> from, to |-> to, by |-> by]

\* the connections a renderer's effects make without a state change, in the
\* order the effects are declared; the cleanups undo them in the same order
effectEdges(f) ==
    CASE f.level \in {1, 2} ->
            <<<<f.gainNode, f.destination>>, <<f.gainNode, f.analyserNode>>>>
      [] f.level = 3 ->
            <<<<f.pannerNode, f.gainNode>>, <<f.gainNode, f.destination>>,
              <<f.gainNode, f.analyserNode>>>>
      [] f.level = 4 ->
            <<<<f.pannerNode, f.gainNode>>, <<f.gainNode, f.destination>>,
              <<f.pannerNode, f.analyserNode>>>>

\* the connection an effect makes after a setState of an earlier effect:
\* oscillator.connect(pannerNode) and sourceNode.connect(pannerNode); these
\* effects are declared before the others
stateEdges(f) ==
    IF f.level = 3 THEN <<<<f.oscillator, f.pannerNode>>>>
    ELSE IF f.level = 4 /\ f.sourceNode # NoNode
    THEN <<<<f.sourceNode, f.pannerNode>>>>
    ELSE <<>>

cleanupOps_none(f) == <<>>

\* the effect cleanups of one unmounting renderer, in declaration order
cleanupOps(f) ==
    LET edgeList == stateEdges(f) \o effectEdges(f)
    IN  [i \in 1..Len(edgeList) |->
            Op("disconnect", edgeList[i][1], edgeList[i][2], f.id)]

\* React unmounts a removed subtree from its root down: the cleanups of a
\* renderer run before those of its children
unmountOps(removed) ==
    Concat([i \in 1..Len(removed) |-> cleanupOps(removed[i])])

\* the track selection effect of AudioTrackRenderer: setTrack((prev) => ...)
selectTrack(prev, audioTrack, session) ==
    IF audioTrack.deviceId = deviceId
    THEN IF prev = NoTrack /\ audioTrack._id \in DOMAIN session.audioProducers
            /\ session.audioProducers[audioTrack._id] # NullTrack
         THEN session.audioProducers[audioTrack._id]
         ELSE prev
    ELSE IF prev = NoTrack /\ audioTrack._id \in DOMAIN session.audioConsumers
         THEN session.audioConsumers[audioTrack._id]
         ELSE prev

\* what a render pass creates for a renderer that stays mounted: the
\* arguments of useState(audioContext.createGain()) and of
\* useState(audioContext.createAnalyser()) are evaluated at every render and
\* the new nodes dropped, as the state keeps the first ones
rerenderOps(f) ==
    <<Op("create", NoNode, NoNode, f.id), Op("create", NoNode, NoNode, f.id)>>

\* the destination prop of a renderer: the gain node of its parent, the
\* context's destination for a GroupRenderer
gainOf(old, live, id) ==
    IF id = "destination" THEN DestinationNode
    ELSE IF id \in SeqIds(old) THEN ById(old, id).gainNode
    ELSE FreshNode(live, id, "gain", 0)

\* the parameter effects of a renderer: gainNode.gain.setValueAtTime of the
\* entity's muted and volume, and for a StageDeviceRenderer
\* pannerNode.positionX.setValueAtTime(position.x), the position being the
\* sum over the device's chain that useStageDevicePosition yields when the
\* listener has no override
setParameters(f, st) ==
    LET entity == st[SliceAt[f.level]].byId[f.id]
    IN  [f EXCEPT
            !.gain = gainEffect(NoEntity, entity),
            !.positionX =
                IF f.level = 3
                THEN LET stageMember == st.stageMembers.byId[entity.stageMemberId]
                         group == st.groups.byId[stageMember.groupId]
                     IN  group.x + stageMember.x + entity.x
                ELSE @]

\* a render pass that mounts every renderer anew
render_remounted(old, live, e, st, session) ==
    setParameters(createRenderer(e, live, gainOf(old, live, e.parent)), st)

\* one renderer after the render pass, the track selection effect and the
\* parameter effects: a mounted renderer keeps its state, a new one creates
\* its nodes
render(old, live, e, st, session) ==
    LET f == IF e.id \in SeqIds(old) THEN ById(old, e.id)
             ELSE createRenderer(e, live, gainOf(old, live, e.parent))
    IN  setParameters(
            IF f.level = 4
            THEN [f EXCEPT !.track =
                    selectTrack(@, st.audioTracks.byId[f.id], session)]
            ELSE f,
            st)

\* createMediaStreamSource and setSourceNode, once a track is set
withSource(f, live) ==
    IF f.level = 4 /\ f.track # NoTrack /\ f.sourceNode = NoNode
    THEN [f EXCEPT !.sourceNode = FreshNode(live, f.id, "source", 0)]
    ELSE f

\* the node creations of the render pass
renderOps(old, order, mounted) ==
    Concat([i \in 1..Len(order) |->
        IF order[i].id \in SeqIds(old)
        THEN rerenderOps(mounted[i])
        ELSE LET f == mounted[i]
             IN  SelectSeq(<<Op("create", f.pannerNode, NoNode, f.id),
                             Op("create", f.gainNode, NoNode, f.id),
                             Op("create", f.analyserNode, NoNode, f.id)>>,
                           LAMBDA o : o.from # NoNode)])

\* the effects of the newly mounted renderers, children first
mountOps(effects, added, mounted) ==
    LET addedEffects == SelectSeq(effects, LAMBDA e : e.id \in SeqIds(added))
    IN  Concat([i \in 1..Len(addedEffects) |->
            LET f == ById(mounted, addedEffects[i].id)
            IN  [k \in 1..Len(effectEdges(f)) |->
                    Op("connect", effectEdges(f)[k][1], effectEdges(f)[k][2],
                       f.id)]])

\* the effects that follow setOscillator and setSourceNode
stateOps(fibersNew, added, unsourced) ==
    LET stateful ==
            SelectSeq(fibersNew,
                LAMBDA f : \/ f.level = 3 /\ f.id \in SeqIds(added)
                           \/ f.id \in SeqIds(unsourced))
    IN  Concat([i \in 1..Len(stateful) |->
            <<Op("create", stateEdges(stateful[i])[1][1], NoNode,
                 stateful[i].id),
              Op("connect", stateEdges(stateful[i])[1][1],
                 stateEdges(stateful[i])[1][2], stateful[i].id)>>])

EdgesOf(log, op) ==
    {<<log[i].from, log[i].to>> : i \in {j \in 1..Len(log) : log[j].op = op}}

GraphInit ==
    /\ audioStore = InitialAudioStore
    /\ mediaTracks = [audioProducers |-> EmptyMap, audioConsumers |-> EmptyMap]
    /\ started = FALSE
    /\ fibers = <<>>
    /\ edges = {}
    /\ commitLog = <<>>

\* The store, the session or the context changes, and React renders and
\* commits the tree: the render pass in RenderOrder, the cleanups of the
\* renderers that are no longer rendered, the effects of the new ones in
\* EffectOrder, and the effects that follow their state changes.
Commit(st, session, isStarted) ==
    \E order \in {RenderOrder(st, groupIds(st, isStarted), 1, "destination")} :
    \E effects \in {EffectOrder(st, groupIds(st, isStarted), 1, "destination")} :
    \E removed \in {SelectSeq(fibers, LAMBDA f : f.id \notin SeqIds(order))} :
    \E added \in {SelectSeq(order, LAMBDA e : e.id \notin SeqIds(fibers))} :
    \E live \in {UNION {FiberNodes(fibers[i]) : i \in 1..Len(fibers)}
                    \cup {e[1] : e \in edges} \cup {e[2] : e \in edges}} :
    \E mounted \in {[i \in 1..Len(order) |->
                        render(fibers, live, order[i], st, session)]} :
    \E unsourced \in {SelectSeq(mounted,
                        LAMBDA f : f.level = 4 /\ f.track # NoTrack
                                   /\ f.sourceNode = NoNode)} :
    \E fibersNew \in {[i \in 1..Len(mounted) |-> withSource(mounted[i], live)]} :
    \E log \in {renderOps(fibers, order, mounted)
                 \o unmountOps(removed)
                 \o mountOps(effects, added, mounted)
                 \o stateOps(fibersNew, added, unsourced)} :
        /\ audioStore' = st
        /\ mediaTracks' = session
        /\ started' = isStarted
        /\ fibers' = fibersNew
        /\ edges' = (edges \ EdgesOf(log, "disconnect"))
                        \cup EdgesOf(log, "connect")
        /\ commitLog' = log

\* StageJoined; the server announces the local device before any stage
TreeStageJoined ==
    /\ audioStore.globals.localDeviceId # ""
    /\ audioStore.globals.stageId = ""
    /\ Commit([audioStore EXCEPT !.globals.stageId = "s1"], mediaTracks, started)

TreeStageLeft ==
    /\ audioStore.globals.stageId # ""
    /\ Commit([InitialAudioStore EXCEPT
                 !.globals.localDeviceId = audioStore.globals.localDeviceId],
              mediaTracks, started)

TreeEntityAdded(level) ==
    /\ audioStore.globals.stageId # ""
    /\ \E entity \in TreeEntities[level] :
        /\ entity._id \notin DOMAIN audioStore[SliceAt[level]].byId
        /\ Commit([audioStore EXCEPT
                     ![SliceAt[level]] =
                        addTreeEntity(@, entity, ParentFieldAt[level])],
                  mediaTracks, started)

TreeEntityRemoved(level) ==
    \E id \in DOMAIN audioStore[SliceAt[level]].byId :
        Commit([audioStore EXCEPT
                  ![SliceAt[level]] =
                        removeTreeEntity(@, id, ParentFieldAt[level])],
               mediaTracks, started)

\* RESET: every slice returns to its initial state, the local device id
\* included
TreeReset ==
    /\ audioStore.globals.localDeviceId # ""
    /\ Commit([InitialAudioStore EXCEPT !.globals.localDeviceId = ""],
              mediaTracks, started)

\* the server announces the local device
TreeLocalDeviceReady ==
    /\ audioStore.globals.localDeviceId = ""
    /\ Commit([audioStore EXCEPT !.globals.localDeviceId = deviceId],
              mediaTracks, started)

\* StageDeviceChanged: volume, muted or position of a stage device change
TreeStageDeviceChanged ==
    \E payload \in StageDeviceChanges :
        /\ payload._id \in DOMAIN audioStore.stageDevices.byId
        /\ Merge(audioStore.stageDevices.byId[payload._id], payload)
                # audioStore.stageDevices.byId[payload._id]
        /\ Commit([audioStore EXCEPT
                     !.stageDevices = changeTreeEntity(@, payload)],
                  mediaTracks, started)

TreeGroupAdded == TreeEntityAdded(1)
TreeGroupRemoved == TreeEntityRemoved(1)
TreeStageMemberAdded == TreeEntityAdded(2)
TreeStageMemberRemoved == TreeEntityRemoved(2)
TreeStageDeviceAdded == TreeEntityAdded(3)
TreeStageDeviceRemoved == TreeEntityRemoved(3)
TreeAudioTrackAdded == TreeEntityAdded(4)
TreeAudioTrackRemoved == TreeEntityRemoved(4)

\* useMediasoup: a producer for a local audio track appears, its track
\* possibly null
AudioProducerSet ==
    \E id \in AudioTrackIds : \E track \in {ProducerTrack(id), NullTrack} :
        /\ id \notin DOMAIN mediaTracks.audioProducers
        /\ Commit(audioStore,
                  [mediaTracks EXCEPT
                     !.audioProducers = Put(@, id, track)], started)

AudioProducerRemoved ==
    \E id \in DOMAIN mediaTracks.audioProducers :
        Commit(audioStore,
               [mediaTracks EXCEPT !.audioProducers = Omit(@, id)], started)

\* useMediasoup: a consumer for an audio track appears
AudioConsumerSet ==
    \E id \in AudioTrackIds :
        /\ id \notin DOMAIN mediaTracks.audioConsumers
        /\ Commit(audioStore,
                  [mediaTracks EXCEPT
                     !.audioConsumers = Put(@, id, ConsumerTrack(id))], started)

AudioConsumerRemoved ==
    \E id \in DOMAIN mediaTracks.audioConsumers :
        Commit(audioStore,
               [mediaTracks EXCEPT !.audioConsumers = Omit(@, id)], started)

\* useAudioContext: setStarted(true) once the context runs, setStarted(false)
\* when it is closed or suspended
AudioStarted == ~started /\ Commit(audioStore, mediaTracks, TRUE)
AudioStopped == started /\ Commit(audioStore, mediaTracks, FALSE)

\* the provider renders again with the same store, session and context
ProviderRerender == Commit(audioStore, mediaTracks, started)

GraphNext ==
    \/ TreeReset
    \/ TreeLocalDeviceReady
    \/ TreeStageDeviceChanged
    \/ TreeStageJoined
    \/ TreeStageLeft
    \/ TreeGroupAdded
    \/ TreeGroupRemoved
    \/ TreeStageMemberAdded
    \/ TreeStageMemberRemoved
    \/ TreeStageDeviceAdded
    \/ TreeStageDeviceRemoved
    \/ TreeAudioTrackAdded
    \/ TreeAudioTrackRemoved
    \/ AudioProducerSet
    \/ AudioProducerRemoved
    \/ AudioConsumerSet
    \/ AudioConsumerRemoved
    \/ AudioStarted
    \/ AudioStopped
    \/ ProviderRerender

---------------------------------------------------------------------------
(* Properties of the renderer tree *)

\* the ids a level lists under the active stage, following groups.byStage,
\* stageMembers.byGroup, stageDevices.byStageMember, audioTracks.byStageDevice
RECURSIVE ReachableAt(_)
ReachableAt(level) ==
    IF level = 1 THEN Range(childIds(audioStore, 1, audioStore.globals.stageId))
    ELSE UNION {Range(childIds(audioStore, level, parent)) :
                    parent \in ReachableAt(level - 1)}

Reachable == UNION {ReachableAt(level) : level \in Levels}

\* the id of the entity that lists id among its children, the stage's
\* output for a group
ParentOf(id, level) ==
    IF level = 1 THEN "destination"
    ELSE CHOOSE parent \in ReachableAt(level - 1) :
            id \in Range(childIds(audioStore, level, parent))

GainOfEntity(id) ==
    IF id = "destination" THEN DestinationNode ELSE ById(fibers, id).gainNode

\* the nodes of the graph: those a renderer holds and those an edge touches
GraphNodes ==
    UNION {FiberNodes(fibers[i]) : i \in 1..Len(fibers)}
        \cup {e[1] : e \in edges} \cup {e[2] : e \in edges}

InStore(id) ==
    \E level \in Levels : id \in DOMAIN audioStore[SliceAt[level]].byId

\* the edges that carry a node's signal on towards the output
Upward(node) ==
    {e \in edges : e[1] = node /\ e[2].kind \in {"gain", "destination"}}

\* a disconnection of the last commit that takes a gain node off the node it
\* feeds
IsGainDisconnect(o) ==
    /\ o.op = "disconnect"
    /\ o.from.kind = "gain"
    /\ o.to.kind \in {"gain", "destination"}

\* C23: in the commit that removes a stage device (or any entity with
\* children), every child's gain node is disconnected from the entity's gain
\* node before the entity's gain node is disconnected from its parent's: no
\* gain node is taken off its parent while a child is still connected to it.
C23_ChildrenDisconnectedFirst ==
    \A i, j \in 1..Len(commitLog) :
        (/\ IsGainDisconnect(commitLog[i])
         /\ IsGainDisconnect(commitLog[j])
         /\ commitLog[j].to = commitLog[i].from)
            => j < i

TrackFor(id) ==
    IF audioStore.audioTracks.byId[id].deviceId
            = audioStore.globals.localDeviceId
    THEN IF id \in DOMAIN mediaTracks.audioProducers
            /\ mediaTracks.audioProducers[id] # NullTrack
         THEN mediaTracks.audioProducers[id] ELSE NoTrack
    ELSE IF id \in DOMAIN mediaTracks.audioConsumers
         THEN mediaTracks.audioConsumers[id] ELSE NoTrack

\* C25: a leaf is bound to no other track than the local producer's (audio
\* track of the local device) or the consumer's (otherwise), never to a
\* consumer's track for a local audio track nor to a producer's for a remote
\* one; while there is no such track the leaf has no source, and its panner
\* and gain stay connected.
C25_LeafPlaysItsTrack ==
    \A i \in 1..Len(fibers) :
        fibers[i].level = 4 =>
            /\ fibers[i].track \in {NoTrack, TrackFor(fibers[i].id)}
            /\ TrackFor(fibers[i].id) = NoTrack =>
                /\ fibers[i].sourceNode = NoNode
                /\ <<fibers[i].pannerNode, fibers[i].gainNode>> \in edges
                /\ <<fibers[i].gainNode, fibers[i].destination>> \in edges

\* C38: whenever a leaf has a bound track or a source node, the session
\* holds a producer (local audio track) or consumer (remote one) for the
\* leaf's audio track id and the bound track is the one it holds now; once
\* that producer or consumer is removed the leaf is bound to nothing.
C38_BoundTrackIsCurrent ==
    \A i \in 1..Len(fibers) :
        (fibers[i].level = 4
            /\ (fibers[i].track # NoTrack \/ fibers[i].sourceNode # NoNode))
        => /\ TrackFor(fibers[i].id) # NoTrack
           /\ fibers[i].track = TrackFor(fibers[i].id)

\* C26: a render against the same store, the same session tracks and the
\* same context creates no node and connects or disconnects nothing; the
\* renderers hold the same nodes and the edges are the same.
C26_RerenderChangesNothing ==
    [][(audioStore' = audioStore /\ mediaTracks' = mediaTracks
            /\ started' = started)
        => (fibers' = fibers /\ edges' = edges /\ commitLog' = <<>>)]_vars

\* the provider's condition for rendering the StageRenderer; the model's
\* audio context and destination exist throughout
ProviderRenders ==
    /\ audioStore.globals.stageId # ""
    /\ audioStore.globals.localDeviceId # ""
    /\ started

NodesOf(f) == [k \in DOMAIN f \ {"gain", "positionX"} |-> f[k]]

\* the store without the parameter fields of its entities
StructureOf(st) ==
    [slice \in DOMAIN st |->
        IF slice = "globals" THEN st.globals
        ELSE [byId |-> [id \in DOMAIN st[slice].byId |->
                          [k \in DOMAIN st[slice].byId[id] \ ParameterFields |->
                              st[slice].byId[id][k]]],
              byParent |-> st[slice].byParent]]

\* the entities whose record differs between two stores
ChangedIds(before, after) ==
    UNION {{id \in DOMAIN before[SliceAt[level]].byId :
                before[SliceAt[level]].byId[id] # after[SliceAt[level]].byId[id]} :
           level \in Levels}

\* this step changes parameter fields of entities and nothing else
ParameterChange ==
    /\ audioStore' # audioStore
    /\ StructureOf(audioStore') = StructureOf(audioStore)
    /\ mediaTracks' = mediaTracks
    /\ started' = started

---------------------------------------------------------------------------
(* The audio context provider: the held context and its start attempts *)

MaxContexts == 4

NoContext == 0

\* a start attempt is the context it was begun for and how far its promise
\* chain got: "resume" while resume() is pending, "play" while audio.play()
\* is pending, "play resolved" once audio.play() is fulfilled and the task
\* that resolves its promise is queued

ContextInit ==
    /\ heldContext = NoContext
    /\ contextState = <<>>
    /\ startAttempts = {}
    /\ providerStarted = FALSE

\* startAudioContext(audioContext, audio): resume() only while the context
\* is suspended, an already resolved promise otherwise
startAudioContext(id, state) == IF state = "suspended" THEN [attempts |-> {[context |-> id, stage |-> "resume"]}, resolved |-> FALSE] ELSE [attempts |-> {}, resolved |-> TRUE]

\* the cleanup of the (re)create effect closes the context it created
closeContext(states, id) == IF id = NoContext THEN states ELSE [states EXCEPT ![id] = "closed"]

\* the (re)create effect with the cleanup of its previous run: first mount,
\* or a change of the sample rate.  The cleanup takes the source from the
\* audio element, which rejects its pending play() promise, or settles it at
\* once if the resolving task was already queued.  setStarted(false) of the
\* cleanup and of the body come first, the callbacks of the promises settled
\* meanwhile run after the effect returns
RecreateContext ==
    /\ Len(contextState) < MaxContexts
    /\ \E state \in {"suspended", "running"} :
        \E begun \in {startAudioContext(Len(contextState) + 1, state)} :
            /\ contextState' = Append(closeContext(contextState, heldContext), state)
            /\ heldContext' = Len(contextState) + 1
            /\ startAttempts' = {a \in startAttempts : ~(a.context = heldContext /\ a.stage # "resume")} \cup begun.attempts
            /\ providerStarted' = (begun.resolved \/ [context |-> heldContext, stage |-> "play resolved"] \in startAttempts)

\* the start callback and the touch handler: a start attempt for the context
\* of the closure
start ==
    /\ heldContext # NoContext
    /\ \E begun \in {startAudioContext(heldContext, contextState[heldContext])} :
        /\ startAttempts' = startAttempts \cup begun.attempts
        /\ providerStarted' = (begun.resolved \/ providerStarted)
    /\ UNCHANGED <<heldContext, contextState>>

\* resume() settles: rejected on a closed context; otherwise fulfilled or
\* rejected, and when fulfilled the chain goes on with audio.play() if the
\* element is paused and with setStarted(true) if it is not
ResumeSettles ==
    \E a \in startAttempts :
        /\ a.stage = "resume"
        /\ \E fulfilled \in BOOLEAN, paused \in BOOLEAN :
            IF contextState[a.context] = "closed" \/ ~fulfilled
            THEN /\ startAttempts' = startAttempts \ {a}
                 /\ UNCHANGED <<contextState, providerStarted>>
            ELSE /\ contextState' = [contextState EXCEPT ![a.context] = "running"]
                 /\ startAttempts' = (startAttempts \ {a}) \cup (IF paused THEN {[a EXCEPT !.stage = "play"]} ELSE {})
                 /\ providerStarted' = (~paused \/ providerStarted)
        /\ UNCHANGED heldContext

\* audio.play() settles: playback began and the task resolving the promise
\* is queued, or the promise is rejected
PlaySettles ==
    \E a \in startAttempts :
        /\ a.stage = "play"
        /\ \E fulfilled \in BOOLEAN :
            startAttempts' = (startAttempts \ {a}) \cup (IF fulfilled THEN {[a EXCEPT !.stage = "play resolved"]} ELSE {})
        /\ UNCHANGED <<heldContext, contextState, providerStarted>>

\* the queued task runs: .then(() => setStarted(true))
PlayResolved ==
    \E a \in startAttempts :
        /\ a.stage = "play resolved"
        /\ startAttempts' = startAttempts \ {a}
        /\ providerStarted' = TRUE
        /\ UNCHANGED <<heldContext, contextState>>

ContextNext ==
    \/ RecreateContext
    \/ start
    \/ ResumeSettles
    \/ PlaySettles
    \/ PlayResolved

\* C39: the started flag is true only while the held audio context has been
\* resumed: whenever started is true there is a held context and it is
\* running, also when a start attempt of a replaced context completes late
C39_StartedOnlyWhileHeldContextRuns ==
    providerStarted => (heldContext # NoContext /\ contextState[heldContext] = "running")

---------------------------------------------------------------------------
(* The specifications *)

Init ==
    /\ StoreInit /\ HookInit /\ SessionInit /\ RefreshInit /\ GainInit
    /\ GraphInit /\ ContextInit

Next ==
    StoreNext /\ UNCHANGED <<stageVars, hookVars, sessionVars, refreshVars, gainVars,
                           graphVars, contextVars>>

Spec == Init /\ [][Next]_vars

\* the position hook, mounted while the stage's entities and the listener's
\* overrides come and go
PositionNext ==
    HookNext /\ UNCHANGED <<sessionVars, refreshVars, gainVars, graphVars, contextVars>>

SpecPosition == Init /\ [][PositionNext]_vars

\* one session against the router: connect, produce, consume and the
\* producer lifecycle, with the server free to accept or reject each request
MediaNext ==
    SessionNext /\ UNCHANGED <<storeVars, stageVars, hookVars, refreshVars, gainVars,
                             graphVars, contextVars>>

SpecSession == Init /\ [][MediaNext]_vars

\* the local device's record and the periodic refresh of its media devices
DevicesNext ==
    RefreshNext /\ UNCHANGED <<storeVars, stageVars, hookVars, sessionVars, gainVars,
                             graphVars, contextVars>>

SpecDevices == Init /\ [][DevicesNext]_vars

\* one mounted renderer while its entity and the listener's override change
RendererNext ==
    GainNext /\ UNCHANGED <<storeVars, stageVars, hookVars, sessionVars, refreshVars,
                          graphVars, contextVars>>

SpecGain == Init /\ [][RendererNext]_vars

\* the renderer tree while the stage, the session's tracks and the audio
\* context change
TreeNext ==
    GraphNext /\ UNCHANGED <<storeVars, stageVars, hookVars, sessionVars, refreshVars,
                           gainVars, contextVars>>

SpecGraph == Init /\ [][TreeNext]_vars

\* the audio context provider while the sample rate changes and start
\* attempts settle
ProviderNext ==
    ContextNext /\ UNCHANGED <<storeVars, stageVars, hookVars, sessionVars, refreshVars,
                             gainVars, graphVars>>

SpecContext == Init /\ [][ProviderNext]_vars

=============================================================================
